---- MODULE Spec2Model ----
(***************************************************************************)
(* A model of sakd's interactive terminal interface (src/tui.rs), the      *)
(* storage calls it makes (src/db.rs) and the date shortcuts it parses     *)
(* (src/utils.rs).                                                         *)
(*                                                                         *)
(* Conventions.  A Rust String is a sequence of one-character strings.     *)
(* An Option<T> is a sequence of length at most one: <<>> is None and      *)
(* <<x>> is Some(x).  An instant is a number of seconds.                   *)
(***************************************************************************)
EXTENDS Integers, Sequences, FiniteSets, TLC

VARIABLES
    pc,               \* where run_tui is
    raw_mode,         \* terminal: raw mode enabled
    alt_screen,       \* terminal: alternate screen entered
    res,              \* run_app's result, held by run_tui: "none", "quit", "err"
    ret,              \* run_tui's return value: "none", "quit", "err"
    db,               \* storage: the rows of the tasks table with their tags and dependencies
    tasks,            \* App.tasks, the cache
    filtered_tasks,   \* App.filtered_tasks, the projection
    selected,         \* App.state.selected(), an Option<usize>
    input_mode,       \* App.input_mode
    input_buffer,     \* App.input_buffer
    popup_data,       \* App.popup_data
    show_done,        \* App.show_done
    tag_filter,       \* App.tag_filter, an Option<String>
    priority_filter,  \* App.priority_filter, an Option<Priority>
    sort_order,       \* App.sort_order
    now,              \* the clock
    storage_failed,   \* a storage call has returned an error; no code reads it
    lastKey,          \* the key event the loop handled last
    hist              \* history kept for the properties; no code reads it

appvars == <<tasks, filtered_tasks, selected, input_mode, input_buffer, popup_data,
             show_done, tag_filter, priority_filter, sort_order>>
termvars == <<raw_mode, alt_screen>>
vars == <<pc, raw_mode, alt_screen, res, ret, db, tasks, filtered_tasks, selected,
          input_mode, input_buffer, popup_data, show_done, tag_filter,
          priority_filter, sort_order, now, storage_failed, lastKey, hist>>

----------------------------------------------------------------------------
(* Bounds of the model *)

\* the largest number of rows the tasks table holds
MaxTasks == 2
\* the largest rowid the tasks table gives out
MaxId == 3
\* the longest text the operator types or shortens, in the popup and in the tag filter
MaxBuf == 1

----------------------------------------------------------------------------
(* Sequences and strings *)

None == <<>>
Some(x) == <<x>>
IsSome(o) == Len(o) > 0
Unwrap(o) == o[1]

Range(s) == {s[i] : i \in 1..Len(s)}

Min(a, b) == IF a < b THEN a ELSE b

UpperCase == <<"A", "B", "C", "D", "E", "F", "G", "H", "I", "J", "K", "L", "M",
               "N", "O", "P", "Q", "R", "S", "T", "U", "V", "W", "X", "Y", "Z">>
LowerCase == <<"a", "b", "c", "d", "e", "f", "g", "h", "i", "j", "k", "l", "m",
               "n", "o", "p", "q", "r", "s", "t", "u", "v", "w", "x", "y", "z">>

\* char::to_lowercase on ASCII
LowerChar(c) ==
    IF \E i \in 1..26 : UpperCase[i] = c
    THEN LowerCase[CHOOSE i \in 1..26 : UpperCase[i] = c]
    ELSE c

to_lowercase(s) == [i \in 1..Len(s) |-> LowerChar(s[i])]

\* str::contains: f occurs in s as a contiguous substring
contains(s, f) ==
    \E k \in 0..(Len(s) - Len(f)) : \A i \in 1..Len(f) : s[k + i] = f[i]

\* String::pop: drops the last character, if there is one
pop(s) == IF Len(s) = 0 THEN s ELSE SubSeq(s, 1, Len(s) - 1)

\* String::push
push(s, c) == Append(s, c)

----------------------------------------------------------------------------
(* Priority (db.rs) *)

Priorities == {"High", "Medium", "Low", "None"}

to_int(p) ==
    CASE p = "High" -> 3
      [] p = "Medium" -> 2
      [] p = "Low" -> 1
      [] OTHER -> 0

from_int(i) ==
    CASE i = 3 -> "High"
      [] i = 2 -> "Medium"
      [] i = 1 -> "Low"
      [] OTHER -> "None"

----------------------------------------------------------------------------
(* Storage (db.rs).  A row of the tasks table, joined with its task_tags   *)
(* and task_dependencies rows, is a Task record.                           *)

mkTask(id, title, is_done, limit, description, priority, tags, dependencies) ==
    [id |-> id, title |-> title, is_done |-> is_done, limit |-> limit,
     description |-> description, priority |-> priority, tags |-> tags,
     dependencies |-> dependencies]

Ids(d) == {t.id : t \in d}

Row(d, id) == CHOOSE t \in d : t.id = id

BoolInt(b) == IF b THEN 1 ELSE 0

\* ORDER BY is_done ASC, priority DESC, limit_at IS NULL, limit_at ASC of get_tasks;
\* rows that tie come in rowid order
OrderByLess(a, b) ==
    LET ka == <<BoolInt(a.is_done), 0 - to_int(a.priority), BoolInt(a.limit = None),
                IF a.limit = None THEN 0 ELSE Unwrap(a.limit), a.id>>
        kb == <<BoolInt(b.is_done), 0 - to_int(b.priority), BoolInt(b.limit = None),
                IF b.limit = None THEN 0 ELSE Unwrap(b.limit), b.id>>
    IN \E i \in 1..5 : ka[i] < kb[i] /\ \A j \in 1..(i - 1) : ka[j] = kb[j]

RECURSIVE get_tasks(_)
get_tasks(d) ==
    IF d = {} THEN <<>>
    ELSE LET first == CHOOSE t \in d : \A u \in d \ {t} : OrderByLess(t, u)
         IN <<first>> \o get_tasks(d \ {first})

\* SELECT ... WHERE id = ?
get_task(d, id) == IF id \in Ids(d) THEN Some(Row(d, id)) ELSE None

\* a faulty DELETE, whose WHERE clause takes every row up to the id
delete_task_upto(d, id) == {t \in d : t.id > id}

\* DELETE FROM tasks WHERE id = ?
delete_task(d, id) == {t \in d : t.id # id}

\* the rowid SQLite gives a row inserted into an INTEGER PRIMARY KEY table
last_insert_rowid(d) ==
    IF d = {} THEN 1 ELSE (CHOOSE m \in Ids(d) : \A i \in Ids(d) : i <= m) + 1

Prefix(s, k) == SubSeq(s, 1, IF k < 0 THEN 0 ELSE Min(k, Len(s)))

\* add_task runs one INSERT for the row, then one for each tag, then one for each
\* dependency, each committed as it runs: the number of statements
add_task_len(tags, dependencies) == 1 + Len(tags) + Len(dependencies)

\* storage after the first k statements of add_task
add_task_upto(d, k, title, limit, description, priority, tags, dependencies) ==
    IF k < 1 THEN d
    ELSE d \cup {mkTask(last_insert_rowid(d), title, FALSE, limit, description, priority,
                        Prefix(tags, k - 1), Prefix(dependencies, k - 1 - Len(tags)))}

\* a faulty add_task, whose INSERT stores the row as completed
add_task_done(d, title, limit, description, priority, tags, dependencies) ==
    d \cup {mkTask(last_insert_rowid(d), title, TRUE, limit, description, priority, tags,
                   dependencies)}

\* add_task when every statement succeeds
add_task(d, title, limit, description, priority, tags, dependencies) ==
    add_task_upto(d, add_task_len(tags, dependencies), title, limit, description,
                  priority, tags, dependencies)

\* update_task runs the UPDATE of the row, the DELETE of its tags, one INSERT for each
\* tag, the DELETE of its dependencies and one INSERT for each dependency
update_task_len(task) == 3 + Len(task.tags) + Len(task.dependencies)

\* the row task.id after the first k statements of update_task, old being the row before
update_row_upto(old, task, k) ==
    IF k < 1 THEN old
    ELSE mkTask(old.id, task.title, task.is_done, task.limit, task.description,
                task.priority,
                IF k < 2 THEN old.tags ELSE Prefix(task.tags, k - 2),
                IF k < 3 + Len(task.tags) THEN old.dependencies
                ELSE Prefix(task.dependencies, k - 3 - Len(task.tags)))

\* storage after the first k statements of update_task
update_task_upto(d, task, k) ==
    {IF t.id = task.id THEN update_row_upto(t, task, k) ELSE t : t \in d}

\* a faulty update_task, whose statements lack the WHERE clause and the completion
\* flag: every row takes the values of the task and is stored as incomplete
update_task_everywhere(d, task) ==
    {mkTask(t.id, task.title, FALSE, task.limit, task.description, task.priority,
            task.tags, task.dependencies) : t \in d}

\* update_task when every statement succeeds
update_task(d, task) == update_task_upto(d, task, update_task_len(task))

----------------------------------------------------------------------------
(* The projection (tui.rs, App::update_filtered_tasks) *)

SortOrders == {"Limit", "Priority", "Id"}

\* a faulty comparator: by priority the lower priority sorts first
SortLessAscending(order, a, b) ==
    LET Key(t) == CASE order = "Limit" ->
                           <<BoolInt(t.is_done), BoolInt(t.limit = None),
                             IF t.limit = None THEN 0 ELSE Unwrap(t.limit)>>
                    [] order = "Priority" -> <<BoolInt(t.is_done), to_int(t.priority), 0>>
                    [] OTHER -> <<BoolInt(t.is_done), t.id, 0>>
    IN \E i \in 1..3 : Key(a)[i] < Key(b)[i] /\ \A j \in 1..(i - 1) : Key(a)[j] = Key(b)[j]

\* a faulty comparator: by due instant a task without one sorts first, as
\* Option's own order has it
SortLessUndatedFirst(order, a, b) ==
    LET Key(t) == CASE order = "Limit" ->
                           <<BoolInt(t.is_done), BoolInt(t.limit # None),
                             IF t.limit = None THEN 0 ELSE Unwrap(t.limit)>>
                    [] order = "Priority" -> <<BoolInt(t.is_done), 3 - to_int(t.priority), 0>>
                    [] OTHER -> <<BoolInt(t.is_done), t.id, 0>>
    IN \E i \in 1..3 : Key(a)[i] < Key(b)[i] /\ \A j \in 1..(i - 1) : Key(a)[j] = Key(b)[j]

\* the three comparators of update_filtered_tasks: a sorts strictly before b
SortLess(order, a, b) ==
    LET ka == CASE order = "Limit" ->
                       <<BoolInt(a.is_done), BoolInt(a.limit = None),
                         IF a.limit = None THEN 0 ELSE Unwrap(a.limit)>>
                [] order = "Priority" ->
                       <<BoolInt(a.is_done), to_int(b.priority), 0>>
                [] OTHER -> <<BoolInt(a.is_done), a.id, 0>>
        kb == CASE order = "Limit" ->
                       <<BoolInt(b.is_done), BoolInt(b.limit = None),
                         IF b.limit = None THEN 0 ELSE Unwrap(b.limit)>>
                [] order = "Priority" ->
                       <<BoolInt(b.is_done), to_int(a.priority), 0>>
                [] OTHER -> <<BoolInt(b.is_done), b.id, 0>>
    IN \E i \in 1..3 : ka[i] < kb[i] /\ \A j \in 1..(i - 1) : ka[j] = kb[j]

\* x put into the sorted sequence s behind every element it does not sort before
RECURSIVE InsertSorted(_, _, _)
InsertSorted(order, s, x) ==
    IF s = <<>> THEN <<x>>
    ELSE IF SortLess(order, x, s[1]) THEN <<x>> \o s
    ELSE <<s[1]>> \o InsertSorted(order, Tail(s), x)

\* slice::sort_by, a stable sort
RECURSIVE sort_by(_, _)
sort_by(order, s) ==
    IF s = <<>> THEN <<>>
    ELSE InsertSorted(order, sort_by(order, SubSeq(s, 1, Len(s) - 1)), s[Len(s)])

\* faulty filters: the tag is compared with the filter case-sensitively
VisibleExactCase(t, sd, tf, pf) ==
    /\ sd \/ ~t.is_done
    /\ tf = None \/ \E i \in 1..Len(t.tags) : contains(t.tags[i], Unwrap(tf))
    /\ pf = None \/ t.priority = Unwrap(pf)

\* the three filters of update_filtered_tasks
Visible(t, sd, tf, pf) ==
    /\ sd \/ ~t.is_done
    /\ tf = None \/ \E i \in 1..Len(t.tags) :
                        contains(to_lowercase(t.tags[i]), to_lowercase(Unwrap(tf)))
    /\ pf = None \/ t.priority = Unwrap(pf)

\* a faulty projection: the tasks that pass the filters are added to the projection
\* already shown instead of replacing it
ProjectionExtended(cache, sd, tf, pf, order) ==
    LET Keep(t) == Visible(t, sd, tf, pf)
    IN sort_by(order, filtered_tasks \o SelectSeq(cache, Keep))

\* update_filtered_tasks: the cache filtered, then sorted
Projection(cache, sd, tf, pf, order) ==
    LET Keep(t) == Visible(t, sd, tf, pf)
    IN sort_by(order, SelectSeq(cache, Keep))

\* iter().position(|t| t.id == id), 0-based
position(s, id) ==
    IF \E i \in 1..Len(s) : s[i].id = id
    THEN Some((CHOOSE i \in 1..Len(s) : s[i].id = id /\ \A j \in 1..(i - 1) : s[j].id # id) - 1)
    ELSE None

\* a faulty relocation: the cursor goes to the first task of the new projection
RelocateToFirst(old, sel, new) == IF new = <<>> THEN None ELSE Some(0)

\* a faulty relocation: when the selected task has left the projection the index
\* is kept as it is
RelocateKept(old, sel, new) ==
    LET selected_id == IF IsSome(sel) /\ Unwrap(sel) < Len(old)
                       THEN Some(old[Unwrap(sel) + 1].id) ELSE None
        s1 == IF IsSome(selected_id) /\ IsSome(position(new, Unwrap(selected_id)))
              THEN position(new, Unwrap(selected_id))
              ELSE sel
    IN IF s1 = None /\ new # <<>> THEN Some(0) ELSE s1

\* the selection update_filtered_tasks leaves: old is the projection before,
\* sel the selection before, new the projection after
Relocate(old, sel, new) ==
    LET selected_id == IF IsSome(sel) /\ Unwrap(sel) < Len(old)
                       THEN Some(old[Unwrap(sel) + 1].id) ELSE None
        s1 == IF IsSome(selected_id)
              THEN IF IsSome(position(new, Unwrap(selected_id)))
                   THEN position(new, Unwrap(selected_id))
                   ELSE IF new = <<>> THEN None
                        ELSE Some(Min(Unwrap(sel), Len(new) - 1))
              ELSE sel
    IN IF s1 = None /\ new # <<>> THEN Some(0) ELSE s1

----------------------------------------------------------------------------
(* Text helpers of the Rust standard library, as the code uses them *)

IsSpace(c) == c = " "

\* str::trim
RECURSIVE trim_start(_)
trim_start(s) == IF s # <<>> /\ IsSpace(s[1]) THEN trim_start(Tail(s)) ELSE s

RECURSIVE trim_end(_)
trim_end(s) == IF s # <<>> /\ IsSpace(s[Len(s)]) THEN trim_end(pop(s)) ELSE s

trim(s) == trim_end(trim_start(s))

\* str::split(','): the pieces between the commas, the empty ones included
RECURSIVE split(_, _)
split(s, sep) ==
    IF \E i \in 1..Len(s) : s[i] = sep
    THEN LET k == CHOOSE i \in 1..Len(s) : s[i] = sep /\ \A j \in 1..(i - 1) : s[j] # sep
         IN <<SubSeq(s, 1, k - 1)>> \o split(SubSeq(s, k + 1, Len(s)), sep)
    ELSE <<s>>

Digits == <<"0", "1", "2", "3", "4", "5", "6", "7", "8", "9">>

IsDigit(c) == \E i \in 1..10 : Digits[i] = c

DigitVal(c) == (CHOOSE i \in 1..10 : Digits[i] = c) - 1

RECURSIVE DigitsVal(_)
DigitsVal(s) == IF s = <<>> THEN 0 ELSE 10 * DigitsVal(pop(s)) + DigitVal(s[Len(s)])

AllDigits(s) == s # <<>> /\ \A i \in 1..Len(s) : IsDigit(s[i])

\* str::parse::<i64>: an optional sign and at least one digit, nothing else
parse_i64(s) ==
    IF AllDigits(s) THEN Some(DigitsVal(s))
    ELSE IF s # <<>> /\ s[1] = "-" /\ AllDigits(Tail(s)) THEN Some(0 - DigitsVal(Tail(s)))
    ELSE IF s # <<>> /\ s[1] = "+" /\ AllDigits(Tail(s)) THEN Some(DigitsVal(Tail(s)))
    ELSE None

\* two decimal digits, as %d, %H and %M print a number below 100
TwoDigits(n) == <<Digits[(n \div 10) + 1], Digits[(n % 10) + 1]>>

\* pieces.filter_map(|s| s.trim().parse::<i64>().ok())
RECURSIVE filter_map_i64(_)
filter_map_i64(pieces) ==
    IF pieces = <<>> THEN <<>>
    ELSE LET v == parse_i64(trim(pieces[1]))
         IN (IF IsSome(v) THEN <<Unwrap(v)>> ELSE <<>>) \o filter_map_i64(Tail(pieces))

\* save_popup: the dependency ids of the popup's dependencies text
parse_dependencies(s) == filter_map_i64(split(s, ","))

----------------------------------------------------------------------------
(* Dates and times (utils.rs).  An instant is a number of seconds since    *)
(* 2026-11-01T00:00:00 UTC.  A NaiveDate is a day number, 1 being          *)
(* 2026-11-01; the calendar covers October to December 2026.  A NaiveTime  *)
(* is a number of seconds since midnight.  Local is a zone nine hours     *)
(* ahead of UTC whose clocks go back once, after every day the            *)
(* specifications reach.                                                   *)

Hour == 60 * 60
Day == 24 * Hour
LocalOffset == 9 * Hour

\* the local zone's clocks go back one hour, from 24:00 to 23:00, at the end of
\* 2026-11-20, as in a zone whose summer time ends at midnight; FoldEnd is the
\* local second count of that midnight
FoldEnd == 20 * Day

\* DateTime<Utc>::with_timezone(&Local), as seconds since 2026-11-01T00:00 local
to_local(i) == IF i < FoldEnd - LocalOffset THEN i + LocalOffset ELSE i + LocalOffset - Hour

\* Local.from_local_datetime(dt).single(): no instant for a local time that the
\* clocks show twice
from_local(l) ==
    IF l < FoldEnd - Hour THEN Some(l - LocalOffset)
    ELSE IF l < FoldEnd THEN None
    ELSE Some(l - LocalOffset + Hour)

\* the day number of a local second count (floor division)
date_of(l) == (l \div Day) + 1
time_of(l) == l % Day

\* Local::now().date_naive()
today(clock) == date_of(to_local(clock))

\* Datelike::weekday, 0 = Mon .. 6 = Sun; 2026-11-01 is a Sunday
weekday(d) == (d + 5) % 7

\* month and day of month of a day number
MonthOf(d) == IF d <= 0 THEN 10 ELSE IF d <= 30 THEN 11 ELSE 12
DayOfMonth(d) == IF d <= 0 THEN d + 31 ELSE IF d <= 30 THEN d ELSE d - 30
DaysIn(m) == IF m = 11 THEN 30 ELSE 31
FirstOf(m) == IF m = 10 THEN 0 - 30 ELSE IF m = 11 THEN 1 ELSE 31

\* format("%Y-%m-%d")
format_date(d) ==
    <<"2", "0", "2", "6", "-">> \o TwoDigits(MonthOf(d)) \o <<"-">> \o TwoDigits(DayOfMonth(d))

\* format("%H:%M"): the seconds are not printed
format_time(t) == TwoDigits(t \div Hour) \o <<":">> \o TwoDigits((t % Hour) \div 60)

\* a number of one or two digits, as chrono reads %m, %d, %H and %M
Num2(s) == IF AllDigits(s) /\ Len(s) <= 2 THEN Some(DigitsVal(s)) ELSE None

\* NaiveDate::parse_from_str(s, "%Y-%m-%d"), for the year 2026 and the months 10..12
parse_ymd(s) ==
    LET p == split(s, "-")
    IN IF Len(p) = 3 /\ p[1] = <<"2", "0", "2", "6">> /\ IsSome(Num2(p[2])) /\ IsSome(Num2(p[3]))
       THEN LET m == Unwrap(Num2(p[2]))
                dd == Unwrap(Num2(p[3]))
            IN IF m \in 10..12 /\ dd >= 1 /\ dd <= DaysIn(m)
               THEN Some(FirstOf(m) + dd - 1) ELSE None
       ELSE None

\* NaiveTime::parse_from_str(s, "%H:%M")
parse_hm(s) ==
    LET p == split(s, ":")
    IN IF Len(p) = 2 /\ IsSome(Num2(p[1])) /\ IsSome(Num2(p[2]))
          /\ Unwrap(Num2(p[1])) <= 23 /\ Unwrap(Num2(p[2])) <= 59
       THEN Some(Unwrap(Num2(p[1])) * Hour + Unwrap(Num2(p[2])) * 60)
       ELSE None

WeekdayNames == << <<"m", "o", "n">>, <<"t", "u", "e">>, <<"w", "e", "d">>, <<"t", "h", "u">>,
                   <<"f", "r", "i">>, <<"s", "a", "t">>, <<"s", "u", "n">> >>

\* a search that starts on the day before `date` and may so stop on it
next_weekday_from_today(date, target) ==
    (date - 1) + ((target + 7 - weekday(date - 1)) % 7)

\* the loop of parse_shortcut_date: the first day from `date` on that falls on `target`
RECURSIVE next_weekday(_, _)
next_weekday(date, target) ==
    IF weekday(date) # target THEN next_weekday(date + 1, target) ELSE date

parse_shortcut_date(str, clock) ==
    LET s == to_lowercase(str)
        td == today(clock)
        n == parse_i64(pop(s))
    IN IF s = <<"t", "o", "d", "a", "y">> \/ s = <<"t">> THEN Some(td)
       ELSE IF s = <<"t", "o", "m", "o", "r", "r", "o", "w">> \/ s = <<"t", "m">> THEN Some(td + 1)
       ELSE IF s # <<>> /\ s[Len(s)] = "d" /\ IsSome(n) THEN Some(td + Unwrap(n))
       ELSE IF s # <<>> /\ s[Len(s)] = "w" /\ IsSome(n) THEN Some(td + Unwrap(n) * 7)
       ELSE IF \E k \in 1..7 : WeekdayNames[k] = s
       THEN Some(next_weekday(td + 1, (CHOOSE k \in 1..7 : WeekdayNames[k] = s) - 1))
       ELSE None

\* `now + Duration::days(..)` of parse_shortcut_date panics: the sum is no NaiveDate,
\* whose days run from -262143-01-01 to 262142-12-31
shortcut_date_panics(str, clock) ==
    LET s == to_lowercase(str)
        td == today(clock)
        n == parse_i64(pop(s))
        InRange(d) == 0 - 96486050 <= d /\ d <= 95005479
    IN /\ s \notin {<<"t", "o", "d", "a", "y">>, <<"t">>,
                    <<"t", "o", "m", "o", "r", "r", "o", "w">>, <<"t", "m">>}
       /\ s # <<>>
       /\ IsSome(n)
       /\ \/ s[Len(s)] = "d" /\ ~InRange(td + Unwrap(n))
          \/ s[Len(s)] = "w" /\ ~InRange(td + Unwrap(n) * 7)

\* a parse_shortcut_time whose <N>h does not wrap at midnight
parse_shortcut_time_unwrapped(str, clock) ==
    LET s == to_lowercase(str)
        n == parse_i64(pop(s))
    IN IF s = <<"l", "a", "s", "t">> THEN Some(23 * Hour + 59 * 60)
       ELSE IF s = <<"m", "o", "r", "n", "i", "n", "g">> THEN Some(9 * Hour)
       ELSE IF s = <<"n", "o", "o", "n">> THEN Some(12 * Hour)
       ELSE IF s = <<"e", "v", "e", "n", "i", "n", "g">> THEN Some(18 * Hour)
       ELSE IF s = <<"n", "i", "g", "h", "t">> THEN Some(21 * Hour)
       ELSE IF s # <<>> /\ s[Len(s)] = "h" /\ IsSome(n)
       THEN Some(time_of(to_local(clock)) + Unwrap(n) * Hour)
       ELSE None

parse_shortcut_time(str, clock) ==
    LET s == to_lowercase(str)
        n == parse_i64(pop(s))
    IN IF s = <<"l", "a", "s", "t">> THEN Some(23 * Hour + 59 * 60)
       ELSE IF s = <<"m", "o", "r", "n", "i", "n", "g">> THEN Some(9 * Hour)
       ELSE IF s = <<"n", "o", "o", "n">> THEN Some(12 * Hour)
       ELSE IF s = <<"e", "v", "e", "n", "i", "n", "g">> THEN Some(18 * Hour)
       ELSE IF s = <<"n", "i", "g", "h", "t">> THEN Some(21 * Hour)
       ELSE IF s # <<>> /\ s[Len(s)] = "h" /\ IsSome(n)
       THEN Some(time_of(to_local(clock + Unwrap(n) * Hour)))
       ELSE None

\* a parse_full_date_time that gives up on a time text it cannot read
parse_full_date_time_strict(date_str, time_str, clock) ==
    IF trim(date_str) = <<>> THEN None
    ELSE LET date == IF IsSome(parse_shortcut_date(date_str, clock))
                     THEN parse_shortcut_date(date_str, clock)
                     ELSE parse_ymd(date_str)
             time == IF trim(time_str) = <<>> THEN Some(23 * Hour + 59 * 60)
                     ELSE IF IsSome(parse_shortcut_time(time_str, clock))
                     THEN parse_shortcut_time(time_str, clock)
                     ELSE parse_hm(time_str)
         IN IF date = None \/ time = None THEN None
            ELSE from_local((Unwrap(date) - 1) * Day + Unwrap(time))

parse_full_date_time(date_str, time_str, clock) ==
    IF trim(date_str) = <<>> THEN None
    ELSE LET date == IF IsSome(parse_shortcut_date(date_str, clock))
                     THEN parse_shortcut_date(date_str, clock)
                     ELSE parse_ymd(date_str)
             time == IF trim(time_str) = <<>> THEN 23 * Hour + 59 * 60
                     ELSE IF IsSome(parse_shortcut_time(time_str, clock))
                     THEN Unwrap(parse_shortcut_time(time_str, clock))
                     ELSE IF IsSome(parse_hm(time_str)) THEN Unwrap(parse_hm(time_str))
                     ELSE 23 * Hour + 59 * 60
         IN IF date = None THEN None
            ELSE from_local((Unwrap(date) - 1) * Day + time)

----------------------------------------------------------------------------
(* Text the entry flow reads and writes (tui.rs, utils.rs) *)

RECURSIVE join(_, _)
\* [String]::join(sep)
join(pieces, sep) ==
    IF pieces = <<>> THEN <<>>
    ELSE IF Len(pieces) = 1 THEN pieces[1]
    ELSE pieces[1] \o sep \o join(Tail(pieces), sep)

RECURSIVE NatToString(_)
NatToString(n) == IF n < 10 THEN <<Digits[n + 1]>>
                  ELSE NatToString(n \div 10) \o <<Digits[(n % 10) + 1]>>

\* i64::to_string
to_string(n) == IF n < 0 THEN <<"-">> \o NatToString(0 - n) ELSE NatToString(n)

\* format!("{:?}", priority)
debug_priority(p) ==
    CASE p = "High" -> <<"H", "i", "g", "h">>
      [] p = "Medium" -> <<"M", "e", "d", "i", "u", "m">>
      [] p = "Low" -> <<"L", "o", "w">>
      [] OTHER -> <<"N", "o", "n", "e">>

\* utils::parse_priority: the level a text names, whatever its case; None otherwise
parse_priority(s) ==
    LET l == to_lowercase(s)
    IN IF l = <<"h", "i", "g", "h">> THEN "High"
       ELSE IF l = <<"m", "e", "d", "i", "u", "m">> THEN "Medium"
       ELSE IF l = <<"l", "o", "w">> THEN "Low"
       ELSE "None"

RECURSIVE trim_nonempty(_)
trim_nonempty(pieces) ==
    IF pieces = <<>> THEN <<>>
    ELSE (IF trim(pieces[1]) = <<>> THEN <<>> ELSE <<trim(pieces[1])>>)
         \o trim_nonempty(Tail(pieces))

\* utils::parse_tags: the comma-separated entries, trimmed, the empty ones dropped
parse_tags(s) == trim_nonempty(split(s, ","))

PopupSteps == <<"Title", "Priority", "Tags", "Dependencies", "Date", "Time", "Description">>

StepIndex(step) == CHOOSE i \in 1..7 : PopupSteps[i] = step

\* PopupData, one text for each step
mkPopup(title, priority, tags, dependencies, date, time, description) ==
    [Title |-> title, Priority |-> priority, Tags |-> tags, Dependencies |-> dependencies,
     Date |-> date, Time |-> time, Description |-> description]

\* PopupData::default()
DefaultPopup == mkPopup(<<>>, <<"N", "o", "n", "e">>, <<>>, <<>>, <<>>, <<>>, <<>>)

\* InputMode
Mode(kind, id, step) == [kind |-> kind, id |-> id, step |-> step]
Normal == Mode("Normal", 0, "-")
Adding(step) == Mode("Adding", 0, step)
Editing(id, step) == Mode("Editing", id, step)
Deleting(id) == Mode("Deleting", id, "-")
FilteringTag == Mode("FilteringTag", 0, "-")
FilteringPriority == Mode("FilteringPriority", 0, "-")

InPopup(m) == m.kind \in {"Adding", "Editing"}

\* the PopupData start_add_popup builds
AddPopup == mkPopup(<<>>, <<" ">>, <<>>, <<>>, <<>>, <<>>, <<>>)

RECURSIVE MapToString(_)
MapToString(ids) == IF ids = <<>> THEN <<>> ELSE <<to_string(ids[1])>> \o MapToString(Tail(ids))

\* the PopupData start_edit_popup builds from the task under the cursor
EditPopup(task) ==
    mkPopup(task.title,
            IF task.priority = "None" THEN <<" ">> ELSE debug_priority(task.priority),
            join(task.tags, <<",", " ">>),
            join(MapToString(task.dependencies), <<",", " ">>),
            IF task.limit = None THEN <<>> ELSE format_date(date_of(to_local(Unwrap(task.limit)))),
            IF task.limit = None THEN <<>> ELSE format_time(time_of(to_local(Unwrap(task.limit)))),
            IF task.description = None THEN <<>> ELSE Unwrap(task.description))

\* save_popup: the due instant of the popup's date and time texts
popup_limit(p, clock) ==
    LET date_str == trim(p.Date)
        time_str == trim(p.Time)
    IN IF date_str = <<>> THEN None
       ELSE parse_full_date_time(date_str,
                                 IF time_str = <<>> THEN <<"2", "3", ":", "5", "9">> ELSE time_str,
                                 clock)

popup_description(p) == IF p.Description = <<>> THEN None ELSE Some(p.Description)

\* save_popup, Editing branch: the task read from storage with the popup's values
edited_task(task, p, clock) ==
    mkTask(task.id, p.Title, task.is_done, popup_limit(p, clock), popup_description(p),
           parse_priority(p.Priority), parse_tags(p.Tags), parse_dependencies(p.Dependencies))

----------------------------------------------------------------------------
(* App's methods (tui.rs) *)

\* a faulty App::next, which wraps one index too late
next_index_late(sel, len) ==
    IF sel = None THEN 0
    ELSE IF Unwrap(sel) > len - 1 THEN 0 ELSE Unwrap(sel) + 1

\* App::next: the index it selects
next_index(sel, len) ==
    IF sel = None THEN 0
    ELSE IF Unwrap(sel) >= len - 1 THEN 0 ELSE Unwrap(sel) + 1

\* App::previous: the index it selects
previous_index(sel, len) ==
    IF sel = None THEN 0
    ELSE IF Unwrap(sel) = 0 THEN len - 1 ELSE Unwrap(sel) - 1

\* App::update_filtered_tasks on the cache and the view settings given
update_filtered_tasks(cache, sd, tf, pf, order) ==
    /\ filtered_tasks' = Projection(cache, sd, tf, pf, order)
    /\ selected' = Relocate(filtered_tasks, selected, filtered_tasks')

\* the task under the cursor
Current == filtered_tasks[Unwrap(selected) + 1]

\* a faulty toggle_status, which flips every task of the cache that is as complete
\* as task_id
flip_alike(cache, task_id) ==
    [i \in 1..Len(cache) |->
        IF cache[i].is_done = CHOOSE b \in BOOLEAN : \E j \in 1..Len(cache) :
                                  cache[j].id = task_id /\ cache[j].is_done = b
        THEN [cache[i] EXCEPT !.is_done = ~cache[i].is_done]
        ELSE cache[i]]

\* toggle_status: the cache with the completion flag of task_id flipped
flip(cache, task_id) ==
    [i \in 1..Len(cache) |->
        IF cache[i].id = task_id /\ \A j \in 1..(i - 1) : cache[j].id # task_id
        THEN [cache[i] EXCEPT !.is_done = ~cache[i].is_done]
        ELSE cache[i]]

\* the cache's task with this id (iter_mut().find)
CacheTask(cache, task_id) == cache[Unwrap(position(cache, task_id)) + 1]

\* jump_to_suggestion: the score of one task
score(task, clock) ==
    (CASE task.priority = "High" -> 30
       [] task.priority = "Medium" -> 20
       [] task.priority = "Low" -> 10
       [] OTHER -> 0)
    + (IF task.limit = None THEN 0
       ELSE LET secs == Unwrap(task.limit) - clock
                \* Duration::num_hours truncates towards zero
                diff == IF secs >= 0 THEN secs \div Hour ELSE 0 - ((0 - secs) \div Hour)
            IN IF diff < 0 THEN 50 ELSE IF diff < 24 THEN 40 ELSE IF diff < 72 THEN 20 ELSE 0)

\* a faulty comparison, under which a later task of equal score replaces an earlier
NotWorse(sc, best_score) == sc >= best_score

\* the comparison that replaces the best task found so far
Better(sc, best_score) == sc > best_score

\* jump_to_suggestion: the scan over the incomplete tasks of the cache; best is
\* <<best_id, best_score>>
RECURSIVE scan(_, _, _)
scan(cache, clock, best) ==
    IF cache = <<>> THEN best
    ELSE LET t == cache[1]
         IN IF ~t.is_done /\ Better(score(t, clock), best[2])
            THEN scan(Tail(cache), clock, <<Some(t.id), score(t, clock)>>)
            ELSE scan(Tail(cache), clock, best)

\* jump_to_suggestion: best_id
best_suggestion(cache, clock) == scan(cache, clock, <<None, 0 - 1>>)[1]

----------------------------------------------------------------------------
(* History.  lastKey and hist are written by no code; hist.track, set at   *)
(* the start, says what is recorded:                                       *)
(*   "none"   nothing                                                      *)
(*   "key"    lastKey: the handler that ran last                           *)
(*   "flow"   lastKey, and in hist.flow storage and cache as they were     *)
(*            when the entry flow in progress, or just ended, began        *)
(*   "walk"   lastKey, and from: the selection before the last event;      *)
(*            start, dir, n: the selection a run of n moves in one         *)
(*            direction began at                                           *)
(*   "twice"  lastKey, and k2: the handler before the last; proj1, proj2:  *)
(*            the projection before the last event and before the one      *)
(*            before it; from: the selection before the last event         *)
(*   "ids"    lastKey, and used: the ids of the rows storage has held      *)
(*            since run_tui began                                          *)

NoHist(track) ==
    [track |-> track, flow |-> <<>>, from |-> None, start |-> None,
     dir |-> "-", n |-> 0, k2 |-> "-", proj1 |-> <<>>, proj2 |-> <<>>, used |-> {}]

NextHist(key) ==
    CASE hist.track = "flow" ->
            [hist EXCEPT !.flow = IF InPopup(input_mode) THEN hist.flow
                                  ELSE IF InPopup(input_mode') THEN <<db, tasks>>
                                  ELSE <<>>]
      [] hist.track = "walk" ->
            IF key \in {"down", "up"} /\ filtered_tasks # <<>>
            THEN IF hist.dir = key /\ hist.n < Len(filtered_tasks)
                 THEN [hist EXCEPT !.from = selected, !.n = hist.n + 1]
                 ELSE [hist EXCEPT !.from = selected, !.start = selected, !.dir = key, !.n = 1]
            ELSE [hist EXCEPT !.from = selected, !.start = None, !.dir = "-", !.n = 0]
      [] hist.track = "twice" ->
            [hist EXCEPT !.k2 = lastKey, !.proj1 = filtered_tasks, !.proj2 = hist.proj1,
                         !.from = selected]
      [] hist.track = "ids" ->
            [hist EXCEPT !.used = hist.used \cup Ids(db) \cup Ids(db')]
      [] OTHER -> hist

\* every handler ends by recording that it ran
Handled(key) ==
    IF hist.track = "none" THEN UNCHANGED <<lastKey, hist>>
    ELSE lastKey' = key /\ hist' = NextHist(key)

----------------------------------------------------------------------------
(* run_tui before the loop (tui.rs, lines 402-409) *)

Fail == /\ ret' = "err"
        /\ pc' = "returned"

\* enable_raw_mode()?
EnableRawMode ==
    /\ pc = "start"
    /\ \/ raw_mode' = TRUE /\ pc' = "raw" /\ ret' = ret
       \/ raw_mode' = raw_mode /\ Fail
    /\ UNCHANGED <<alt_screen, res, db, appvars, now, storage_failed, lastKey, hist>>

\* execute!(stdout, EnterAlternateScreen, EnableMouseCapture)?
EnterAlternateScreen ==
    /\ pc = "raw"
    /\ \/ alt_screen' = TRUE /\ pc' = "alt" /\ ret' = ret
       \/ alt_screen' \in BOOLEAN /\ Fail
    /\ UNCHANGED <<raw_mode, res, db, appvars, now, storage_failed, lastKey, hist>>

\* Terminal::new(backend)?
NewTerminal ==
    /\ pc = "alt"
    /\ \/ pc' = "term" /\ ret' = ret
       \/ Fail
    /\ UNCHANGED <<termvars, res, db, appvars, now, storage_failed, lastKey, hist>>

\* App::new(conn)?
NewApp ==
    /\ pc = "term"
    /\ \/ /\ tasks' = get_tasks(db)
          /\ update_filtered_tasks(tasks', show_done, tag_filter, priority_filter, sort_order)
          /\ pc' = "loop"
          /\ UNCHANGED <<ret, storage_failed>>
       \/ \* get_tasks fails
          /\ Fail
          /\ storage_failed' = TRUE
          /\ UNCHANGED <<tasks, filtered_tasks, selected>>
    /\ UNCHANGED <<termvars, res, db, input_mode, input_buffer, popup_data, show_done,
                   tag_filter, priority_filter, sort_order, now, lastKey, hist>>

----------------------------------------------------------------------------
(* run_tui after the loop (tui.rs, lines 412-420) *)

\* disable_raw_mode()?
DisableRawMode ==
    /\ pc = "restore1"
    /\ \/ raw_mode' = FALSE /\ pc' = "restore2" /\ ret' = ret
       \/ raw_mode' = raw_mode /\ Fail
    /\ UNCHANGED <<alt_screen, res, db, appvars, now, storage_failed, lastKey, hist>>

\* execute!(terminal.backend_mut(), LeaveAlternateScreen, DisableMouseCapture)?
LeaveAlternateScreen ==
    /\ pc = "restore2"
    /\ \/ alt_screen' = FALSE /\ pc' = "restore3" /\ ret' = ret
       \/ alt_screen' \in BOOLEAN /\ Fail
    /\ UNCHANGED <<raw_mode, res, db, appvars, now, storage_failed, lastKey, hist>>

\* terminal.show_cursor()?; res
ShowCursor ==
    /\ pc = "restore3"
    /\ \/ ret' = res /\ pc' = "returned"
       \/ Fail
    /\ UNCHANGED <<termvars, res, db, appvars, now, storage_failed, lastKey, hist>>

----------------------------------------------------------------------------
(* run_app (tui.rs, lines 423-556): one action for each key of each mode *)

InLoop(kind) == pc = "loop" /\ input_mode.kind = kind

\* the handler returns and the loop goes round
Stay == UNCHANGED <<pc, res, ret, termvars, now, storage_failed>>

\* what `?` does with an Err inside run_app: run_app returns it, and run_tui goes on
\* to restore the terminal
Propagate ==
    /\ res' = "err"
    /\ pc' = "restore1"

\* a faulty handling of Err from a storage call: it is dropped and the loop goes round
Swallow == /\ storage_failed' = TRUE
           /\ UNCHANGED <<pc, res, ret, termvars, now>>

\* a storage call returns Err and `?` propagates it
Throw == /\ Propagate
         /\ storage_failed' = TRUE
         /\ UNCHANGED <<ret, termvars, now>>

\* a panic inside run_app: the thread unwinds through run_tui, which restores
\* nothing
Panic == /\ pc' = "panicked"
         /\ UNCHANGED <<res, ret, termvars, now, storage_failed>>

\* terminal.draw, event::poll or event::read fails
LoopIoError ==
    /\ pc = "loop"
    /\ Propagate
    /\ UNCHANGED <<ret, termvars, now, storage_failed>>
    /\ UNCHANGED <<db, appvars>>
    /\ Handled("io_error")

\* terminal.draw(|f| ui(f, &mut app)) succeeds.  Of the application ui hands only
\* app.state to a widget; List's render, depending on the ratatui release, leaves
\* the selection alone, or clears it when the list is empty and moves it to the
\* last item when it lies beyond the list.  The scroll offset of ListState is
\* not part of the state here.
Draw ==
    /\ pc = "loop"
    /\ \/ selected' = selected
       \/ selected' = IF filtered_tasks = <<>> THEN None
                      ELSE IF IsSome(selected) /\ Unwrap(selected) >= Len(filtered_tasks)
                      THEN Some(Len(filtered_tasks) - 1)
                      ELSE selected
    /\ Stay
    /\ UNCHANGED <<db, tasks, filtered_tasks, input_mode, input_buffer, popup_data,
                   show_done, tag_filter, priority_filter, sort_order>>
    /\ Handled("draw")

\* a key the mode's match sends to `_ => {}`
KeyIgnored ==
    /\ pc = "loop"
    /\ Stay
    /\ UNCHANGED <<db, appvars>>
    /\ Handled("other")

\* Normal: 'q' or Esc
KeyQuit ==
    /\ InLoop("Normal")
    /\ res' = "quit"
    /\ pc' = "restore1"
    /\ UNCHANGED <<ret, termvars, now, storage_failed, db, appvars>>
    /\ Handled("quit")

\* Normal: 'j' or Down, App::next
KeyDown ==
    /\ InLoop("Normal")
    /\ selected' = IF filtered_tasks = <<>> THEN selected
                   ELSE Some(next_index(selected, Len(filtered_tasks)))
    /\ Stay
    /\ UNCHANGED <<db, tasks, filtered_tasks, input_mode, input_buffer, popup_data,
                   show_done, tag_filter, priority_filter, sort_order>>
    /\ Handled("down")

\* Normal: 'k' or Up, App::previous
KeyUp ==
    /\ InLoop("Normal")
    /\ selected' = IF filtered_tasks = <<>> THEN selected
                   ELSE Some(previous_index(selected, Len(filtered_tasks)))
    /\ Stay
    /\ UNCHANGED <<db, tasks, filtered_tasks, input_mode, input_buffer, popup_data,
                   show_done, tag_filter, priority_filter, sort_order>>
    /\ Handled("up")

\* Normal: ' ' or Enter, App::toggle_status
KeyToggle ==
    /\ InLoop("Normal")
    /\ IF selected = None
       THEN Stay /\ UNCHANGED <<db, tasks, filtered_tasks, selected>>
       ELSE LET task_id == Current.id
                cache == flip(tasks, task_id)
                task == CacheTask(cache, task_id)
            IN /\ tasks' = cache
               /\ \/ /\ db' = update_task(db, task)
                     /\ update_filtered_tasks(cache, show_done, tag_filter, priority_filter,
                                              sort_order)
                     /\ Stay
                  \/ /\ \E k \in 0..(update_task_len(task) - 1) :
                            db' = update_task_upto(db, task, k)
                     /\ UNCHANGED <<filtered_tasks, selected>>
                     /\ Throw
    /\ UNCHANGED <<input_mode, input_buffer, popup_data, show_done, tag_filter,
                   priority_filter, sort_order>>
    /\ Handled("toggle")

\* a faulty capture, which takes the id of the first task of the projection
delete_target_first == filtered_tasks[1].id

\* the id the 'r' key captures
delete_target == Current.id

\* Normal: 'r'
KeyR ==
    /\ InLoop("Normal")
    /\ input_mode' = IF selected = None THEN input_mode ELSE Deleting(delete_target)
    /\ Stay
    /\ UNCHANGED <<db, tasks, filtered_tasks, selected, input_buffer, popup_data,
                   show_done, tag_filter, priority_filter, sort_order>>
    /\ Handled("r")

\* Normal: 'h', App::toggle_done_visibility
KeyH ==
    /\ InLoop("Normal")
    /\ show_done' = ~show_done
    /\ update_filtered_tasks(tasks, show_done', tag_filter, priority_filter, sort_order)
    /\ Stay
    /\ UNCHANGED <<db, tasks, input_mode, input_buffer, popup_data, tag_filter,
                   priority_filter, sort_order>>
    /\ Handled("h")


\* Normal: 'a', App::start_add_popup
KeyA ==
    /\ InLoop("Normal")
    /\ Cardinality(db) < MaxTasks
    /\ last_insert_rowid(db) <= MaxId
    /\ popup_data' = AddPopup
    /\ input_buffer' = <<>>
    /\ input_mode' = Adding("Title")
    /\ Stay
    /\ UNCHANGED <<db, tasks, filtered_tasks, selected, show_done, tag_filter,
                   priority_filter, sort_order>>
    /\ Handled("a")

\* a faulty start_edit_popup, which opens the first task of the projection
KeyEFirst ==
    /\ InLoop("Normal")
    /\ IF selected = None
       THEN UNCHANGED <<popup_data, input_buffer, input_mode>>
       ELSE /\ popup_data' = EditPopup(filtered_tasks[1])
            /\ input_buffer' = popup_data'.Title
            /\ input_mode' = Editing(filtered_tasks[1].id, "Title")
    /\ Stay
    /\ UNCHANGED <<db, tasks, filtered_tasks, selected, show_done, tag_filter,
                   priority_filter, sort_order>>
    /\ Handled("e")

\* Normal: 'e', App::start_edit_popup
KeyE ==
    /\ InLoop("Normal")
    /\ IF selected = None
       THEN UNCHANGED <<popup_data, input_buffer, input_mode>>
       ELSE /\ popup_data' = EditPopup(Current)
            /\ input_buffer' = popup_data'.Title
            /\ input_mode' = Editing(Current.id, "Title")
    /\ Stay
    /\ UNCHANGED <<db, tasks, filtered_tasks, selected, show_done, tag_filter,
                   priority_filter, sort_order>>
    /\ Handled("e")

\* a faulty jump, which also brings the suggested task to the head of the projection
KeySToFront ==
    /\ InLoop("Normal")
    /\ LET best_id == best_suggestion(tasks, now)
           pos == IF IsSome(best_id) THEN position(filtered_tasks, Unwrap(best_id)) ELSE None
           Others(t) == t.id # Unwrap(best_id)
       IN IF IsSome(pos)
          THEN /\ filtered_tasks' = <<filtered_tasks[Unwrap(pos) + 1]>>
                                        \o SelectSeq(filtered_tasks, Others)
               /\ selected' = Some(0)
          ELSE UNCHANGED <<filtered_tasks, selected>>
    /\ Stay
    /\ UNCHANGED <<db, tasks, input_mode, input_buffer, popup_data, show_done, tag_filter,
                   priority_filter, sort_order>>
    /\ Handled("s")

\* Normal: 's', App::jump_to_suggestion
KeyS ==
    /\ InLoop("Normal")
    /\ LET best_id == best_suggestion(tasks, now)
       IN selected' = IF IsSome(best_id) /\ IsSome(position(filtered_tasks, Unwrap(best_id)))
                      THEN position(filtered_tasks, Unwrap(best_id))
                      ELSE selected
    /\ Stay
    /\ UNCHANGED <<db, tasks, filtered_tasks, input_mode, input_buffer, popup_data,
                   show_done, tag_filter, priority_filter, sort_order>>
    /\ Handled("s")

\* App::cycle_sort_order: the order that follows
next_sort_order(order) ==
    CASE order = "Limit" -> "Priority"
      [] order = "Priority" -> "Id"
      [] OTHER -> "Limit"

\* Normal: 'o', App::cycle_sort_order
KeyO ==
    /\ InLoop("Normal")
    /\ sort_order' = next_sort_order(sort_order)
    /\ update_filtered_tasks(tasks, show_done, tag_filter, priority_filter, sort_order')
    /\ Stay
    /\ UNCHANGED <<db, tasks, input_mode, input_buffer, popup_data, show_done, tag_filter,
                   priority_filter>>
    /\ Handled("o")

\* a faulty 'f', which opens the tag filter on an empty buffer
KeyFBlank ==
    /\ InLoop("Normal")
    /\ input_mode' = FilteringTag
    /\ input_buffer' = <<>>
    /\ Stay
    /\ UNCHANGED <<db, tasks, filtered_tasks, selected, popup_data, show_done, tag_filter,
                   priority_filter, sort_order>>
    /\ Handled("f")

\* Normal: 'f'
KeyF ==
    /\ InLoop("Normal")
    /\ input_mode' = FilteringTag
    /\ input_buffer' = IF tag_filter = None THEN <<>> ELSE Unwrap(tag_filter)
    /\ Stay
    /\ UNCHANGED <<db, tasks, filtered_tasks, selected, popup_data, show_done, tag_filter,
                   priority_filter, sort_order>>
    /\ Handled("f")

\* Normal: 'p'
KeyP ==
    /\ InLoop("Normal")
    /\ input_mode' = FilteringPriority
    /\ Stay
    /\ UNCHANGED <<db, tasks, filtered_tasks, selected, input_buffer, popup_data, show_done,
                   tag_filter, priority_filter, sort_order>>
    /\ Handled("p")

----------------------------------------------------------------------------
(* Adding and Editing *)

\* the characters the operator types at a step of the popup
PopupChars(step) == IF step = "Title" THEN {"t"} ELSE {}

\* Adding | Editing: a character key
PopupChar ==
    /\ pc = "loop"
    /\ InPopup(input_mode)
    /\ Len(input_buffer) < MaxBuf
    /\ \E c \in PopupChars(input_mode.step) : input_buffer' = push(input_buffer, c)
    /\ Stay
    /\ UNCHANGED <<db, tasks, filtered_tasks, selected, input_mode, popup_data, show_done,
                   tag_filter, priority_filter, sort_order>>
    /\ Handled("popup_char")

\* the words the operator types at a step of the popup, a character at a time
PopupWords(step) ==
    CASE step = "Title" -> {<<"t">>}
      [] step = "Priority" -> {<<"h", "i", "g", "h">>}
      [] step = "Tags" -> {<<"a", ",", " ", "b">>}
      [] step = "Dependencies" -> {<<"1">>}
      [] step = "Date" -> {<<"t">>, <<"M", "o", "n">>} \cup Range(WeekdayNames)
      [] step = "Description" -> {<<"d">>, <<"q">>}
      [] OTHER -> {}

\* a faulty routing of the character keys of a word, which lets 'q' quit as it does
\* in Normal
PopupTypeRouted ==
    /\ pc = "loop"
    /\ InPopup(input_mode)
    /\ input_buffer = <<>>
    /\ \E w \in PopupWords(input_mode.step) :
          IF w = <<"q">>
          THEN /\ res' = "quit"
               /\ pc' = "restore1"
               /\ UNCHANGED <<ret, termvars, now, storage_failed, input_buffer>>
          ELSE /\ input_buffer' = input_buffer \o w
               /\ Stay
    /\ UNCHANGED <<db, tasks, filtered_tasks, selected, input_mode, popup_data, show_done,
                   tag_filter, priority_filter, sort_order>>
    /\ Handled("popup_char")

\* Adding | Editing: the character keys of a word, one after the other, into an
\* empty buffer
PopupType ==
    /\ pc = "loop"
    /\ InPopup(input_mode)
    /\ input_buffer = <<>>
    /\ \E w \in PopupWords(input_mode.step) : input_buffer' = input_buffer \o w
    /\ Stay
    /\ UNCHANGED <<db, tasks, filtered_tasks, selected, input_mode, popup_data, show_done,
                   tag_filter, priority_filter, sort_order>>
    /\ Handled("popup_char")

\* Adding | Editing: the texts typed into the Date and the Time step
EntryTexts(step) ==
    CASE step = "Date" ->
           {<<"t", "o", "d", "a", "y">>, <<"T">>,
            <<"t", "o", "m", "o", "r", "r", "o", "w">>, <<"T", "M">>,
            <<"0", "d">>, <<"-", "1", "d">>, <<"3", "D">>, <<"+", "2", "d">>,
            <<"1", "w">>, <<"-", "1", "w">>, <<"0", "w">>,
            <<"1", "0", "0", "0", "0", "0", "0", "0", "0", "d">>, <<"d">>,
            <<"3", "x">>, <<"x">>, <<"m", "o", "n">>,
            <<"2", "0", "2", "6", "-", "1", "1", "-", "2", "0">>, <<" ", " ">>}
      [] step = "Time" ->
           {<<"l", "a", "s", "t">>, <<"m", "o", "r", "n", "i", "n", "g">>,
            <<"N", "o", "o", "n">>, <<"e", "v", "e", "n", "i", "n", "g">>,
            <<"n", "i", "g", "h", "t">>, <<"2", "h">>, <<"1", "5", "h">>,
            <<"-", "3", "h">>, <<"0", "9", ":", "3", "0">>, <<"x">>,
            <<"2", "5", ":", "0", "0">>, <<" ", " ">>}
      [] OTHER -> {}

\* Adding | Editing: the character keys of a date or time text, one after the
\* other, into an empty buffer
PopupFill ==
    /\ pc = "loop"
    /\ InPopup(input_mode)
    /\ input_buffer = <<>>
    /\ \E w \in EntryTexts(input_mode.step) : input_buffer' = input_buffer \o w
    /\ Stay
    /\ UNCHANGED <<db, tasks, filtered_tasks, selected, input_mode, popup_data, show_done,
                   tag_filter, priority_filter, sort_order>>
    /\ Handled("popup_char")

\* Adding | Editing: Backspace
PopupBackspace ==
    /\ pc = "loop"
    /\ InPopup(input_mode)
    /\ Len(input_buffer) <= MaxBuf
    /\ input_buffer' = pop(input_buffer)
    /\ Stay
    /\ UNCHANGED <<db, tasks, filtered_tasks, selected, input_mode, popup_data, show_done,
                   tag_filter, priority_filter, sort_order>>
    /\ Handled("popup_backspace")

\* a faulty Esc, which stores what the popup holds as a new task
PopupEscSaves ==
    /\ pc = "loop"
    /\ InPopup(input_mode)
    /\ input_mode' = Normal
    /\ input_buffer' = <<>>
    /\ db' = add_task(db, popup_data.Title, None, None, "None", <<>>, <<>>)
    /\ Stay
    /\ UNCHANGED <<tasks, filtered_tasks, selected, popup_data, show_done, tag_filter,
                   priority_filter, sort_order>>
    /\ Handled("popup_esc")

\* a faulty Esc, which returns Quit from the popup
PopupEscQuits ==
    /\ pc = "loop"
    /\ InPopup(input_mode)
    /\ res' = "quit"
    /\ pc' = "restore1"
    /\ UNCHANGED <<ret, termvars, now, storage_failed, db, appvars>>
    /\ Handled("popup_esc")

\* Adding | Editing: Esc
PopupEsc ==
    /\ pc = "loop"
    /\ InPopup(input_mode)
    /\ input_mode' = Normal
    /\ input_buffer' = <<>>
    /\ Stay
    /\ UNCHANGED <<db, tasks, filtered_tasks, selected, popup_data, show_done, tag_filter,
                   priority_filter, sort_order>>
    /\ Handled("popup_esc")

\* a faulty Enter, which goes from Date straight to Description
PopupNextSkips ==
    /\ pc = "loop"
    /\ InPopup(input_mode)
    /\ input_mode.step # "Description"
    /\ LET next_step == IF input_mode.step = "Date" THEN "Description"
                        ELSE PopupSteps[StepIndex(input_mode.step) + 1]
       IN /\ popup_data' = [popup_data EXCEPT ![input_mode.step] = input_buffer]
          /\ input_mode' = [input_mode EXCEPT !.step = next_step]
          /\ input_buffer' = popup_data'[next_step]
    /\ Stay
    /\ UNCHANGED <<db, tasks, filtered_tasks, selected, show_done, tag_filter,
                   priority_filter, sort_order>>
    /\ Handled("popup_next")

\* a faulty next_popup_step, which stores the buffer and hands the next step an
\* empty one
PopupNextBlank ==
    /\ pc = "loop"
    /\ InPopup(input_mode)
    /\ input_mode.step # "Description"
    /\ popup_data' = [popup_data EXCEPT ![input_mode.step] = input_buffer]
    /\ input_mode' = [input_mode EXCEPT !.step = PopupSteps[StepIndex(input_mode.step) + 1]]
    /\ input_buffer' = <<>>
    /\ Stay
    /\ UNCHANGED <<db, tasks, filtered_tasks, selected, show_done, tag_filter,
                   priority_filter, sort_order>>
    /\ Handled("popup_next")

\* Adding | Editing: Enter on a step before Description, App::next_popup_step
PopupNext ==
    /\ pc = "loop"
    /\ InPopup(input_mode)
    /\ input_mode.step # "Description"
    /\ LET next_step == PopupSteps[StepIndex(input_mode.step) + 1]
       IN /\ popup_data' = [popup_data EXCEPT ![input_mode.step] = input_buffer]
          /\ input_mode' = [input_mode EXCEPT !.step = next_step]
          /\ input_buffer' = popup_data'[next_step]
    /\ Stay
    /\ UNCHANGED <<db, tasks, filtered_tasks, selected, show_done, tag_filter,
                   priority_filter, sort_order>>
    /\ Handled("popup_next")

\* refresh_tasks that keeps the cache it has and only rebuilds the projection
refresh_tasks_kept(d) ==
    /\ tasks' = tasks
    /\ update_filtered_tasks(tasks', show_done, tag_filter, priority_filter, sort_order)

\* App::refresh_tasks, storage being d
refresh_tasks(d) ==
    /\ tasks' = get_tasks(d)
    /\ update_filtered_tasks(tasks', show_done, tag_filter, priority_filter, sort_order)

\* save_popup returned Ok after storage became d and get_tasks succeeds or fails
SavedThenRefresh(d) ==
    \/ /\ refresh_tasks(d)
       /\ input_mode' = Normal
       /\ input_buffer' = <<>>
       /\ Stay
    \/ /\ UNCHANGED <<tasks, filtered_tasks, selected, input_mode, input_buffer>>
       /\ Throw

\* Adding: Enter on Description, App::save_popup
AddCommit ==
    /\ InLoop("Adding")
    /\ input_mode.step = "Description"
    /\ popup_data' = [popup_data EXCEPT !.Description = input_buffer]
    /\ LET p == popup_data'
           limit == popup_limit(p, now)
           description == popup_description(p)
           priority == parse_priority(p.Priority)
           tags == parse_tags(p.Tags)
           dependencies == parse_dependencies(p.Dependencies)
       IN IF trim(p.Date) # <<>> /\ shortcut_date_panics(trim(p.Date), now)
          THEN /\ Panic
               /\ UNCHANGED <<db, tasks, filtered_tasks, selected, input_mode, input_buffer>>
          ELSE \/ /\ db' = add_task(db, p.Title, limit, description, priority, tags,
                                    dependencies)
                  /\ SavedThenRefresh(db')
               \/ /\ \E k \in 0..(add_task_len(tags, dependencies) - 1) :
                         db' = add_task_upto(db, k, p.Title, limit, description, priority,
                                             tags, dependencies)
                  /\ UNCHANGED <<tasks, filtered_tasks, selected, input_mode, input_buffer>>
                  /\ Throw
    /\ UNCHANGED <<show_done, tag_filter, priority_filter, sort_order>>
    /\ Handled("add_commit")

\* Editing: Enter on Description, App::save_popup
EditCommit ==
    /\ InLoop("Editing")
    /\ input_mode.step = "Description"
    /\ popup_data' = [popup_data EXCEPT !.Description = input_buffer]
    /\ LET found == get_task(db, input_mode.id)
       IN IF /\ trim(popup_data'.Date) # <<>>
             /\ shortcut_date_panics(trim(popup_data'.Date), now)
          THEN /\ Panic
               /\ UNCHANGED <<db, tasks, filtered_tasks, selected, input_mode, input_buffer>>
          ELSE \/ /\ db' = IF found = None THEN db
                           ELSE update_task(db, edited_task(Unwrap(found), popup_data', now))
                  /\ SavedThenRefresh(db')
               \/ \* get_task fails, or a statement of update_task does
                  /\ \/ db' = db
                     \/ /\ found # None
                        /\ LET task == edited_task(Unwrap(found), popup_data', now)
                           IN \E k \in 0..(update_task_len(task) - 1) :
                                  db' = update_task_upto(db, task, k)
                  /\ UNCHANGED <<tasks, filtered_tasks, selected, input_mode, input_buffer>>
                  /\ Throw
    /\ UNCHANGED <<show_done, tag_filter, priority_filter, sort_order>>
    /\ Handled("edit_commit")

----------------------------------------------------------------------------
(* Deleting *)

\* Deleting(id): Enter
DeleteConfirm ==
    /\ InLoop("Deleting")
    /\ \/ /\ db' = delete_task(db, input_mode.id)
          /\ \/ /\ refresh_tasks(db')
                /\ input_mode' = Normal
                /\ Stay
             \/ /\ UNCHANGED <<tasks, filtered_tasks, selected, input_mode>>
                /\ Throw
       \/ /\ db' = db
          /\ UNCHANGED <<tasks, filtered_tasks, selected, input_mode>>
          /\ Throw
    /\ UNCHANGED <<input_buffer, popup_data, show_done, tag_filter, priority_filter, sort_order>>
    /\ Handled("delete_confirm")

\* Deleting(id): Esc or 'n'
DeleteCancel ==
    /\ InLoop("Deleting")
    /\ input_mode' = Normal
    /\ Stay
    /\ UNCHANGED <<db, tasks, filtered_tasks, selected, input_buffer, popup_data, show_done,
                   tag_filter, priority_filter, sort_order>>
    /\ Handled("delete_cancel")

----------------------------------------------------------------------------
(* FilteringTag and FilteringPriority *)

\* the characters the operator types into the tag filter
FilterChars == {"a", "A"}

\* FilteringTag: a character key
FilterChar ==
    /\ InLoop("FilteringTag")
    /\ Len(input_buffer) < MaxBuf
    /\ \E c \in FilterChars : input_buffer' = push(input_buffer, c)
    /\ Stay
    /\ UNCHANGED <<db, tasks, filtered_tasks, selected, input_mode, popup_data, show_done,
                   tag_filter, priority_filter, sort_order>>
    /\ Handled("filter_char")

\* FilteringTag: Backspace
FilterBackspace ==
    /\ InLoop("FilteringTag")
    /\ input_buffer' = pop(input_buffer)
    /\ Stay
    /\ UNCHANGED <<db, tasks, filtered_tasks, selected, input_mode, popup_data, show_done,
                   tag_filter, priority_filter, sort_order>>
    /\ Handled("filter_backspace")

\* FilteringTag: Enter
FilterEnter ==
    /\ InLoop("FilteringTag")
    /\ tag_filter' = IF input_buffer = <<>> THEN None ELSE Some(input_buffer)
    /\ update_filtered_tasks(tasks, show_done, tag_filter', priority_filter, sort_order)
    /\ input_mode' = Normal
    /\ input_buffer' = <<>>
    /\ Stay
    /\ UNCHANGED <<db, tasks, popup_data, show_done, priority_filter, sort_order>>
    /\ Handled("filter_enter")

\* FilteringTag: Esc
FilterEsc ==
    /\ InLoop("FilteringTag")
    /\ input_mode' = Normal
    /\ input_buffer' = <<>>
    /\ Stay
    /\ UNCHANGED <<db, tasks, filtered_tasks, selected, popup_data, show_done, tag_filter,
                   priority_filter, sort_order>>
    /\ Handled("filter_esc")

\* a faulty reading of the level keys, which takes each for the level above
LevelOfRaised(key) ==
    CASE key = "l" -> Some("Medium")
      [] key = "m" -> Some("High")
      [] key = "h" -> Some("High")
      [] OTHER -> None

\* the filter each key of FilteringPriority sets: 'n' and ' ' clear it
LevelOf(key) ==
    CASE key = "l" -> Some("Low")
      [] key = "m" -> Some("Medium")
      [] key = "h" -> Some("High")
      [] OTHER -> None

\* FilteringPriority: 'n', ' ', 'l', 'm' or 'h'
PriorityKey ==
    /\ InLoop("FilteringPriority")
    /\ \E key \in {"n", "l", "m", "h"} :
          /\ priority_filter' = LevelOf(key)
          /\ update_filtered_tasks(tasks, show_done, tag_filter, priority_filter', sort_order)
          /\ input_mode' = Normal
          /\ Stay
          /\ UNCHANGED <<db, tasks, input_buffer, popup_data, show_done, tag_filter,
                         sort_order>>
          /\ Handled(CASE key = "l" -> "priority_l"
                       [] key = "m" -> "priority_m"
                       [] key = "h" -> "priority_h"
                       [] OTHER -> "priority_n")

\* FilteringPriority: Esc
PriorityEsc ==
    /\ InLoop("FilteringPriority")
    /\ input_mode' = Normal
    /\ Stay
    /\ UNCHANGED <<db, tasks, filtered_tasks, selected, input_buffer, popup_data, show_done,
                   tag_filter, priority_filter, sort_order>>
    /\ Handled("priority_esc")

----------------------------------------------------------------------------
(* The states run_tui starts in *)

\* 2026-11-03T01:00:00 UTC, 10:00 local
Clock0 == 2 * Day + Hour

\* the rows a tasks table may hold for one id
Rows(id, limits, priorities, tagsets) ==
    {mkTask(id, <<"a">>, done, limit, None, priority, tags, <<>>) :
        done \in BOOLEAN, limit \in limits, priority \in priorities, tags \in tagsets}

\* the tables of rows 1..n, for every n up to max
RECURSIVE Tables(_, _, _, _)
Tables(max, limits, priorities, tagsets) ==
    IF max = 0 THEN {{}}
    ELSE LET smaller == Tables(max - 1, limits, priorities, tagsets)
         IN smaller \cup {d \cup {r} : d \in {x \in smaller : Cardinality(x) = max - 1},
                                       r \in Rows(max, limits, priorities, tagsets)}

\* run_tui is entered: the terminal is cooked, no App exists yet
Start(d, clock, track) ==
    /\ pc = "start"
    /\ raw_mode = FALSE
    /\ alt_screen = FALSE
    /\ res = "none"
    /\ ret = "none"
    /\ db = d
    /\ tasks = <<>>
    /\ filtered_tasks = <<>>
    /\ selected = None
    /\ input_mode = Normal
    /\ input_buffer = <<>>
    /\ popup_data = DefaultPopup
    /\ show_done = FALSE
    /\ tag_filter = None
    /\ priority_filter = None
    /\ sort_order = "Limit"
    /\ now = clock
    /\ storage_failed = FALSE
    /\ lastKey = "-"
    /\ hist = NoHist(track)

Setup == EnableRawMode \/ EnterAlternateScreen \/ NewTerminal \/ NewApp

Teardown == DisableRawMode \/ LeaveAlternateScreen \/ ShowCursor

----------------------------------------------------------------------------
(* Spec: every key of every mode, on tables of a few plain rows *)

NormalKeys ==
    \/ KeyQuit
    \/ KeyDown
    \/ KeyUp
    \/ KeyToggle
    \/ KeyR
    \/ KeyH
    \/ KeyA
    \/ KeyE
    \/ KeyS
    \/ KeyO
    \/ KeyF
    \/ KeyP

FilterKeys ==
    \/ FilterChar
    \/ FilterBackspace
    \/ FilterEnter
    \/ FilterEsc
    \/ PriorityKey
    \/ PriorityEsc

Next ==
    \/ Setup
    \/ Teardown
    \/ LoopIoError
    \/ KeyIgnored
    \/ NormalKeys
    \/ PopupChar
    \/ PopupBackspace
    \/ PopupEsc
    \/ PopupNext
    \/ AddCommit
    \/ EditCommit
    \/ DeleteConfirm
    \/ DeleteCancel
    \/ FilterKeys

Spec ==
    /\ \E d \in Tables(MaxTasks, {None}, {"None"}, {<<>>}) :
           Start(d, Clock0, "none")
    /\ [][Next]_vars

----------------------------------------------------------------------------
(* SpecView: the keys that browse, filter, sort, toggle and delete, on     *)
(* tables whose rows differ in completion, priority, tags and due instant; *)
(* the handler that ran last is recorded                                   *)

\* the rows of SpecView's tables
ViewTasks == 2

SpecView ==
    /\ \E d \in Tables(ViewTasks, {None, Some(Clock0 + Hour)}, {"None", "High"},
                       {<<>>, << <<"b", "A">> >>}) :
           Start(d, Clock0, "key")
    /\ [][\/ Setup
          \/ KeyDown
          \/ KeyUp
          \/ KeyToggle
          \/ KeyR
          \/ KeyH
          \/ KeyO
          \/ KeyF
          \/ KeyP
          \/ DeleteConfirm
          \/ DeleteCancel
          \/ FilterKeys]_vars

----------------------------------------------------------------------------
(* SpecFlow: the entry flow, with storage and cache recorded as the flow   *)
(* begins                                                                  *)

SpecFlow ==
    /\ \E d \in Tables(MaxTasks, {Some(Clock0 + Hour)}, {"High"}, {<< <<"b", "A">> >>}) :
           Start(d, Clock0, "flow")
    /\ [][\/ Setup
          \/ KeyDown
          \/ KeyToggle
          \/ KeyH
          \/ KeyA
          \/ KeyE
          \/ PopupChar
          \/ PopupBackspace
          \/ PopupEsc
          \/ PopupNext
          \/ AddCommit
          \/ EditCommit]_vars

----------------------------------------------------------------------------
(* SpecWalk: moving the cursor, with the run of moves recorded *)

\* the rows of SpecWalk's tables
WalkTasks == 3

SpecWalk ==
    /\ \E d \in Tables(WalkTasks, {None}, {"None"}, {<<>>}) :
           Start(d, Clock0, "walk")
    /\ [][\/ Setup
          \/ KeyDown
          \/ KeyUp
          \/ KeyH]_vars

----------------------------------------------------------------------------
(* SpecTwice: the keys that recompute the projection, with the projections *)
(* before the last two events recorded                                     *)

\* the rows of SpecTwice's tables
TwiceTasks == 2

SpecTwice ==
    /\ \E d \in Tables(TwiceTasks, {Some(Clock0 + Hour)}, {"None", "High"},
                       {<< <<"b", "A">> >>}) :
           Start(d, Clock0, "twice")
    /\ [][\/ Setup
          \/ KeyDown
          \/ KeyToggle
          \/ KeyH
          \/ KeyO
          \/ KeyR
          \/ DeleteConfirm
          \/ DeleteCancel
          \/ KeyP
          \/ PriorityKey
          \/ PriorityEsc]_vars

----------------------------------------------------------------------------
(* SpecSuggest: the suggestion, on tables whose rows differ in priority    *)
(* and due instant                                                         *)

\* the rows of SpecSuggest's tables
SuggestTasks == 2

SpecSuggest ==
    /\ \E d \in Tables(SuggestTasks, {None, Some(Clock0 - 2 * Hour), Some(Clock0 + 48 * Hour)},
                       {"None", "Medium", "High"}, {<<>>}) :
           Start(d, Clock0, "key")
    /\ [][\/ Setup
          \/ KeyDown
          \/ KeyToggle
          \/ KeyH
          \/ KeyS]_vars

----------------------------------------------------------------------------
(* SpecScore: the suggestion, on tables whose rows have a due instant on   *)
(* either side of each edge of the scoring bands                           *)

\* the rows of SpecScore's tables
ScoreTasks == 1

\* due instants around now, now + 24h and now + 72h
ScoreLimits ==
    {None, Some(Clock0 - 2 * Hour), Some(Clock0 - Hour), Some(Clock0 - 30 * 60),
     Some(Clock0), Some(Clock0 + 24 * Hour - 1), Some(Clock0 + 24 * Hour),
     Some(Clock0 + 72 * Hour - 1), Some(Clock0 + 72 * Hour)}

SpecScore ==
    /\ \E d \in Tables(ScoreTasks, ScoreLimits, Priorities, {<<>>}) :
           Start(d, Clock0, "key")
    /\ [][\/ Setup
          \/ KeyDown
          \/ KeyToggle
          \/ KeyH
          \/ KeyS]_vars

----------------------------------------------------------------------------
(* SpecJump: the suggestion under a priority filter, with the selection    *)
(* before the last event recorded                                          *)

\* the rows of SpecJump's tables
JumpTasks == 2

SpecJump ==
    /\ \E d \in Tables(JumpTasks, {None, Some(Clock0 + 48 * Hour)}, {"Low", "High"}, {<<>>}) :
           Start(d, Clock0, "walk")
    /\ [][\/ Setup
          \/ KeyDown
          \/ KeyToggle
          \/ KeyS
          \/ KeyP
          \/ PriorityKey
          \/ PriorityEsc]_vars

----------------------------------------------------------------------------
(* SpecSort: the sort orders, on tables whose rows differ in priority and  *)
(* due instant and a cache that toggles have put out of load order         *)

\* the rows of SpecSort's tables
SortTasks == 3

SpecSort ==
    /\ \E d \in Tables(SortTasks, {None, Some(Clock0 + Hour), Some(Clock0 + 2 * Hour)},
                       {"Low", "High"}, {<<>>}) :
           Start(d, Clock0, "none")
    /\ [][\/ Setup
          \/ KeyDown
          \/ KeyToggle
          \/ KeyH
          \/ KeyO]_vars

----------------------------------------------------------------------------
(* SpecEntry: one Adding flow with whole words typed into its fields, on   *)
(* every day of a week, in the morning and after midnight local time       *)

\* the days the clock is drawn from
EntryDays == 7

SpecEntry ==
    /\ \E d \in Tables(1, {None}, {"None"}, {<<>>}) :
       \E k \in 0..(EntryDays - 1) : \E h \in {0, 15 * Hour} :
           /\ d # {}
           /\ Start(d, Clock0 + k * Day + h, "key")
    /\ [][\/ Setup
          \/ KeyA
          \/ PopupType
          \/ PopupBackspace
          \/ PopupNext
          \/ PopupEsc
          \/ AddCommit]_vars

----------------------------------------------------------------------------
(* SpecDates: one Adding flow with date and time texts typed into the Date *)
(* and the Time step, in the morning and after midnight local time         *)

SpecDates ==
    /\ \E d \in Tables(1, {None}, {"None"}, {<<>>}) : \E h \in {0, 15 * Hour} :
           Start(d, Clock0 + h, "key")
    /\ [][\/ Setup
          \/ KeyA
          \/ PopupFill
          \/ PopupNext
          \/ PopupEsc
          \/ AddCommit]_vars

----------------------------------------------------------------------------
(* SpecQuit: the quit keys and the text keys in every mode, up to the      *)
(* return of run_tui                                                       *)

SpecQuit ==
    /\ \E d \in Tables(1, {None}, {"None"}, {<<>>}) :
           Start(d, Clock0, "key")
    /\ [][\/ Setup
          \/ Teardown
          \/ KeyIgnored
          \/ KeyQuit
          \/ KeyR
          \/ KeyA
          \/ KeyE
          \/ KeyF
          \/ KeyP
          \/ PopupType
          \/ PopupBackspace
          \/ PopupNext
          \/ PopupEsc
          \/ DeleteConfirm
          \/ DeleteCancel
          \/ FilterChar
          \/ FilterEnter
          \/ FilterEsc
          \/ PriorityKey
          \/ PriorityEsc]_vars

----------------------------------------------------------------------------
(* SpecDraw: redraws between the keys that change the projection, the      *)
(* selection and the mode                                                  *)

SpecDraw ==
    /\ \E d \in Tables(MaxTasks, {None}, {"None", "High"}, {<<>>}) :
           Start(d, Clock0, "key")
    /\ [][\/ Setup
          \/ Draw
          \/ KeyDown
          \/ KeyToggle
          \/ KeyH
          \/ KeyO
          \/ KeyR
          \/ DeleteConfirm
          \/ DeleteCancel
          \/ KeyA
          \/ PopupChar
          \/ PopupNext
          \/ PopupEsc
          \/ KeyP
          \/ PriorityKey
          \/ PriorityEsc]_vars

----------------------------------------------------------------------------
(* SpecIds: tasks deleted and added, with the ids storage has held recorded *)

SpecIds ==
    /\ \E d \in Tables(MaxTasks, {None}, {"None"}, {<<>>}) :
           Start(d, Clock0, "ids")
    /\ [][\/ Setup
          \/ KeyDown
          \/ KeyR
          \/ DeleteConfirm
          \/ DeleteCancel
          \/ KeyA
          \/ PopupNext
          \/ PopupEsc
          \/ AddCommit]_vars

----------------------------------------------------------------------------
(* SpecRound: Editing flows in which nothing is typed, on a task that holds  *)
(* or lacks each of its optional values and whose due instant may fall      *)
(* within a minute                                                          *)

SpecRound ==
    /\ \E done \in BOOLEAN :
       \E limit \in {None, Some(Clock0 + Hour), Some(Clock0 + Hour + 30)} :
       \E description \in {None, Some(<<"d">>)} :
       \E priority \in {"None", "High"} :
       \E tags \in {<<>>, << <<"b", "A">> >>} :
       \E dependencies \in {<<>>, <<2>>} :
       \E others \in {{}, {mkTask(2, <<"a">>, FALSE, None, None, "None", <<>>, <<>>)}} :
           Start({mkTask(1, <<"a">>, done, limit, description, priority, tags,
                         dependencies)} \cup others,
                 Clock0, "key")
    /\ [][\/ Setup
          \/ KeyDown
          \/ KeyH
          \/ KeyE
          \/ PopupNext
          \/ PopupEsc
          \/ EditCommit]_vars

----------------------------------------------------------------------------
(* Properties *)

\* C1: after any sequence of key events the cursor is a valid index into the
\* projection when the projection is non-empty, and unset when it is empty.
C1_CursorValid ==
    IF filtered_tasks = <<>> THEN selected = None
    ELSE IsSome(selected) /\ Unwrap(selected) \in 0..(Len(filtered_tasks) - 1)

\* a task was completed in place while completed tasks are hidden: it left the
\* projection from under the cursor, and the cursor points at the task that remains
C1_Witness ==
    /\ pc = "loop"
    /\ ~show_done
    /\ Len(tasks) = 2
    /\ tasks[1].is_done
    /\ ~tasks[2].is_done
    /\ Len(filtered_tasks) = 1
    /\ selected = Some(0)

\* C2: Enter in Deleting(id) removes from storage the row whose id the 'r' key
\* captured from under the cursor, and no other row.
C2_DeleteExact ==
    [][/\ (pc = "loop" /\ lastKey' = "r" /\ input_mode'.kind = "Deleting")
            => /\ IsSome(selected)
               /\ input_mode'.id = filtered_tasks[Unwrap(selected) + 1].id
       /\ (pc = "loop" /\ input_mode.kind = "Deleting" /\ lastKey' = "delete_confirm")
            => /\ db' \subseteq db
               /\ \A t \in db \ db' : t.id = input_mode.id
               /\ ~storage_failed' => input_mode.id \notin Ids(db')]_vars

\* row 1 of two was deleted and row 2 is still stored
C2_Witness ==
    /\ pc = "loop"
    /\ lastKey = "delete_confirm"
    /\ input_mode = Normal
    /\ Ids(db) = {2}
    /\ Len(tasks) = 1

\* C3: Esc in Adding or Editing, at any step, leaves storage and the cache as they
\* were when the flow began and returns to Normal.
C3_CancelRestores ==
    lastKey = "popup_esc" => /\ hist.flow = <<db, tasks>>
                             /\ input_mode = Normal

\* a flow was cancelled after a title had been typed and the step advanced
C3_Witness ==
    /\ lastKey = "popup_esc"
    /\ input_mode = Normal
    /\ popup_data.Title = <<"t">>
    /\ tasks # <<>>

\* C4: whenever run_tui has returned, raw mode is disabled and the alternate
\* screen has been left.
C4_TerminalRestored ==
    pc = "returned" => ~raw_mode /\ ~alt_screen

\* C5: a storage call that fails inside the loop leaves the cache and the
\* projection as they were before the key, and the loop goes on in Normal mode.
C5_FailureAborts ==
    [][(pc = "loop" /\ ~storage_failed /\ storage_failed')
            => /\ tasks' = tasks
               /\ filtered_tasks' = filtered_tasks
               /\ pc' = "loop"
               /\ input_mode' = Normal]_vars

\* C6: once a storage call has failed the loop handles no further key, and what
\* run_tui returns is the error.
C6_FailurePropagated ==
    storage_failed => /\ pc # "loop"
                      /\ pc = "returned" => ret = "err"
                      /\ pc # "returned" => res = "err"

\* a storage call failed inside the loop, the terminal was restored and run_tui
\* returned the error
C6_Witness ==
    /\ storage_failed
    /\ pc = "returned"
    /\ res = "err"
    /\ ret = "err"
    /\ ~raw_mode

\* C7: on a projection of n > 0 tasks, n moves in one direction bring the cursor
\* back to where the run began; a move down from the last index lands on 0 and a
\* move up from 0 lands on the last index.
C7_WrapAround ==
    (pc = "loop" /\ filtered_tasks # <<>>)
        => /\ hist.n = Len(filtered_tasks) => selected = hist.start
           /\ (lastKey = "down" /\ hist.from = Some(Len(filtered_tasks) - 1))
                => selected = Some(0)
           /\ (lastKey = "up" /\ hist.from = Some(0))
                => selected = Some(Len(filtered_tasks) - 1)

\* three moves down over three tasks, begun at the middle one
C7_Witness ==
    /\ pc = "loop"
    /\ Len(filtered_tasks) = 3
    /\ hist.dir = "down"
    /\ hist.n = 3
    /\ hist.start = Some(1)
    /\ selected = Some(1)

\* C8: two presses of 'h' in succession leave the projection holding the same
\* tasks in the same order as before the two.
C8_ToggleTwice ==
    (pc = "loop" /\ lastKey = "h" /\ hist.k2 = "h") => filtered_tasks = hist.proj2

\* 'h' was pressed twice on a cache reordered by toggles, and the first press
\* changed the projection
C8_Witness ==
    /\ pc = "loop"
    /\ lastKey = "h"
    /\ hist.k2 = "h"
    /\ hist.proj1 # filtered_tasks
    /\ filtered_tasks # <<>>
    /\ tasks # get_tasks(db)

\* C9: while the loop runs, the projection holds exactly the cached tasks that
\* satisfy (show_done or not completed) and (no tag filter or some tag contains
\* the filter, letter case ignored) and (no priority filter or the priority is
\* the filter's), each once.
C9_ProjectionExact ==
    pc = "loop" =>
        LET Within(tag, f) ==
                \E a \in 1..(Len(tag) + 1) : \E b \in (a - 1)..Len(tag) :
                    to_lowercase(SubSeq(tag, a, b)) = to_lowercase(f)
            Sat(t) ==
                /\ show_done \/ ~t.is_done
                /\ tag_filter = None
                      \/ \E i \in 1..Len(t.tags) : Within(t.tags[i], Unwrap(tag_filter))
                /\ priority_filter = None \/ t.priority = Unwrap(priority_filter)
        IN /\ \A i \in 1..Len(filtered_tasks) :
                  /\ Sat(filtered_tasks[i])
                  /\ \E j \in 1..Len(tasks) : tasks[j] = filtered_tasks[i]
           /\ \A j \in 1..Len(tasks) :
                  Sat(tasks[j]) => \E i \in 1..Len(filtered_tasks) : filtered_tasks[i] = tasks[j]
           /\ Len(filtered_tasks) = Cardinality({j \in 1..Len(tasks) : Sat(tasks[j])})

\* the filter "A" was entered and some cached task, but not every one, has a
\* tag holding the letter
C9_Witness ==
    /\ pc = "loop"
    /\ lastKey = "filter_enter"
    /\ tag_filter = Some(<<"A">>)
    /\ filtered_tasks # <<>>
    /\ Len(filtered_tasks) < Len(tasks)

\* C10: best_suggestion is None when the cache holds no incomplete task; otherwise
\* it is the id of an incomplete task whose score no incomplete task exceeds and
\* no earlier incomplete task of the cache equals.
C10_FirstBest ==
    pc = "loop" =>
        LET best_id == best_suggestion(tasks, now)
            open == {i \in 1..Len(tasks) : ~tasks[i].is_done}
        IN IF open = {} THEN best_id = None
           ELSE \E i \in open :
                   /\ best_id = Some(tasks[i].id)
                   /\ \A j \in open : score(tasks[j], now) <= score(tasks[i], now)
                   /\ \A j \in open : j < i => score(tasks[j], now) < score(tasks[i], now)

\* 's' was pressed on a cache whose first task is overdue with priority None and
\* whose second is due in 48 hours with priority High: both score 50 and the
\* cursor is on the first
C10_Witness ==
    /\ pc = "loop"
    /\ lastKey = "s"
    /\ Len(tasks) = 2
    /\ ~tasks[1].is_done /\ tasks[1].priority = "None"
    /\ tasks[1].limit = Some(Clock0 - 2 * Hour)
    /\ ~tasks[2].is_done /\ tasks[2].priority = "High"
    /\ tasks[2].limit = Some(Clock0 + 48 * Hour)
    /\ score(tasks[1], now) = score(tasks[2], now)
    /\ IsSome(selected)
    /\ filtered_tasks[Unwrap(selected) + 1].id = tasks[1].id

\* C11: the score of an incomplete task is 30, 20, 10 or 0 for priority High,
\* Medium, Low or None, plus 50 when the due instant is before now, 40 when it is
\* at or after now and less than 24 hours ahead, 20 when it is at least 24 and
\* less than 72 hours ahead, and 0 otherwise or when there is no due instant.
C11_ScoreBands ==
    pc = "loop" =>
        \A i \in 1..Len(tasks) :
            LET t == tasks[i]
                importance == CASE t.priority = "High" -> 30
                                [] t.priority = "Medium" -> 20
                                [] t.priority = "Low" -> 10
                                [] OTHER -> 0
                urgency == IF t.limit = None THEN 0
                           ELSE IF Unwrap(t.limit) < now THEN 50
                           ELSE IF Unwrap(t.limit) < now + 24 * Hour THEN 40
                           ELSE IF Unwrap(t.limit) < now + 72 * Hour THEN 20
                           ELSE 0
            IN ~t.is_done => score(t, now) = importance + urgency

\* C12: 's' in Normal mode changes nothing but the selection: storage, the cache,
\* the projection, the filters, the sort order, show_done and the mode stay.
C12_SuggestFrame ==
    [][(pc = "loop" /\ input_mode = Normal /\ lastKey' = "s")
            => UNCHANGED <<db, tasks, filtered_tasks, tag_filter, priority_filter,
                           sort_order, show_done, input_mode>>]_vars

\* 's' moved the cursor from the first task of the projection to the second
C12_Witness ==
    /\ pc = "loop"
    /\ lastKey = "s"
    /\ hist.from = Some(0)
    /\ selected = Some(1)
    /\ Len(filtered_tasks) = 2
    /\ best_suggestion(tasks, now) = Some(filtered_tasks[2].id)

\* C13: when the cache holds an incomplete task, after 's' the cursor is on the
\* task best_suggestion names, whatever filter is set.
C13_SuggestSelected ==
    (pc = "loop" /\ lastKey = "s" /\ \E i \in 1..Len(tasks) : ~tasks[i].is_done)
        => /\ IsSome(selected)
           /\ Some(filtered_tasks[Unwrap(selected) + 1].id) = best_suggestion(tasks, now)

\* C14: sorted by priority, the projection lists every incomplete task before
\* every complete one and, within each group, High before Medium before Low
\* before None.
C14_ByPriority ==
    (pc = "loop" /\ sort_order = "Priority") =>
        LET Rank(t) == CASE t.priority = "High" -> 0
                         [] t.priority = "Medium" -> 1
                         [] t.priority = "Low" -> 2
                         [] OTHER -> 3
        IN \A i \in 1..Len(filtered_tasks) : \A j \in (i + 1)..Len(filtered_tasks) :
               LET a == filtered_tasks[i]
                   b == filtered_tasks[j]
               IN /\ a.is_done => b.is_done
                  /\ a.is_done = b.is_done => Rank(a) <= Rank(b)

\* the cache holds A (incomplete, Low), B (incomplete, High), C (complete, High) in
\* this order and the projection by priority is B, A, C
C14_Witness ==
    /\ pc = "loop"
    /\ sort_order = "Priority"
    /\ show_done
    /\ Len(tasks) = 3
    /\ ~tasks[1].is_done /\ tasks[1].priority = "Low"
    /\ ~tasks[2].is_done /\ tasks[2].priority = "High"
    /\ tasks[3].is_done /\ tasks[3].priority = "High"
    /\ filtered_tasks = <<tasks[2], tasks[1], tasks[3]>>

\* C15: sorted by due instant, the order run_tui starts in, the projection lists
\* every incomplete task before every complete one; within each group a task with
\* a due instant precedes every task without one, and due instants ascend.
C15_ByDue ==
    (pc = "loop" /\ sort_order = "Limit") =>
        \A i \in 1..Len(filtered_tasks) : \A j \in (i + 1)..Len(filtered_tasks) :
            LET a == filtered_tasks[i]
                b == filtered_tasks[j]
            IN /\ a.is_done => b.is_done
               /\ (a.is_done = b.is_done /\ a.limit = None) => b.limit = None
               /\ (a.is_done = b.is_done /\ a.limit # None /\ b.limit # None)
                    => Unwrap(a.limit) <= Unwrap(b.limit)

\* the cache holds, all incomplete, a task without a due instant, then one due
\* later, then one due sooner; the projection by due instant reverses them
C15_Witness ==
    /\ pc = "loop"
    /\ sort_order = "Limit"
    /\ Len(tasks) = 3
    /\ \A i \in 1..3 : ~tasks[i].is_done
    /\ tasks[1].limit = None
    /\ tasks[2].limit = Some(Clock0 + 2 * Hour)
    /\ tasks[3].limit = Some(Clock0 + Hour)
    /\ filtered_tasks = <<tasks[3], tasks[2], tasks[1]>>

\* C16: an Adding or Editing flow begins at Title; Enter moves to the next of
\* Title, Priority, Tags, Dependencies, Date, Time, Description and no other key
\* changes the step; storage is written only by Enter on Description, which, when
\* it succeeds, leaves the loop in Normal mode.
C16_StepOrder ==
    [][pc = "loop" =>
        LET After == [Title |-> "Priority", Priority |-> "Tags", Tags |-> "Dependencies",
                      Dependencies |-> "Date", Date |-> "Time", Time |-> "Description"]
            Commit == lastKey' \in {"add_commit", "edit_commit"}
        IN /\ (~InPopup(input_mode) /\ InPopup(input_mode'))
                => input_mode'.step = "Title"
           /\ (InPopup(input_mode) /\ InPopup(input_mode'))
                => /\ input_mode'.kind = input_mode.kind
                   /\ IF lastKey' = "popup_next"
                      THEN /\ input_mode.step # "Description"
                           /\ input_mode'.step = After[input_mode.step]
                      ELSE input_mode'.step = input_mode.step
           /\ (InPopup(input_mode) /\ db' # db)
                => input_mode.step = "Description" /\ Commit
           /\ (InPopup(input_mode) /\ input_mode.step = "Description" /\ Commit
                 /\ ~storage_failed')
                => input_mode' = Normal]_vars

\* an Adding flow went through its seven steps and stored a task titled "t"
C16_Witness ==
    /\ pc = "loop"
    /\ lastKey = "add_commit"
    /\ input_mode = Normal
    /\ \E i \in 1..Len(tasks) : tasks[i].title = <<"t">>

\* C17: a successful Enter on Description in Adding adds to storage one row, with
\* a fresh id, incomplete, holding the values entered, and changes no other row;
\* the cache then holds the new task.
C17_AddCreatesOne ==
    [][(pc = "loop" /\ input_mode.kind = "Adding" /\ lastKey' = "add_commit"
          /\ ~storage_failed')
        => LET p == popup_data'
           IN \E new \in db' :
                 /\ new.id \notin Ids(db)
                 /\ db' = db \cup {new}
                 /\ ~new.is_done
                 /\ new.title = p.Title
                 /\ new.priority = parse_priority(p.Priority)
                 /\ new.tags = parse_tags(p.Tags)
                 /\ new.dependencies = parse_dependencies(p.Dependencies)
                 /\ new.limit = popup_limit(p, now)
                 /\ new.description = popup_description(p)
                 /\ \E i \in 1..Len(tasks') : tasks'[i] = new]_vars

\* a task with a title, priority High, two tags, a dependency, a due date and a
\* description was added beside the task stored before
C17_Witness ==
    /\ pc = "loop"
    /\ lastKey = "add_commit"
    /\ input_mode = Normal
    /\ Len(tasks) = 2
    /\ \E i \in 1..2 :
          /\ tasks[i].id = 2
          /\ tasks[i].title = <<"t">>
          /\ tasks[i].priority = "High"
          /\ tasks[i].tags = << <<"a">>, <<"b">> >>
          /\ tasks[i].dependencies = <<1>>
          /\ tasks[i].limit # None
          /\ tasks[i].description = Some(<<"d">>)
          /\ tasks[i] \in db

\* C18: the id of a row that Enter on Description adds in Adding is the id of no
\* row storage has held since run_tui began, deleted rows included.
C18_IdsNeverReused ==
    [][(pc = "loop" /\ lastKey' = "add_commit")
            => \A id \in Ids(db') \ Ids(db) : id \notin hist.used]_vars

\* C19: whenever the loop waits for a key, and so after every toggle, confirmed
\* delete, Adding commit and Editing commit that returned Ok, the cache holds
\* exactly the tasks of storage, each once and with the field values storage has.
C19_CacheIsStorage ==
    pc = "loop" => /\ Range(tasks) = db
                   /\ Len(tasks) = Cardinality(db)

\* a task was added under id 3, the other tasks were deleted and the new task
\* was toggled to done
C19_Witness ==
    /\ pc = "loop"
    /\ input_mode = Normal
    /\ Ids(db) = {3}
    /\ Row(db, 3).is_done
    /\ Row(db, 3).title = <<"t">>
    /\ tasks = <<Row(db, 3)>>

\* C20: when an Adding commit succeeds with a weekday name (in any case) in the
\* date field, parse_shortcut_date returns a day that falls on the named weekday
\* and lies 1 to 7 days after today, never today: today + 7 when today is the
\* named weekday; the search ends, and the new task's limit lies on that day.
C20_NextWeekday ==
    [][\A k \in 1..7 :
          (/\ pc = "loop"
           /\ pc' = "loop"
           /\ lastKey' = "add_commit"
           /\ to_lowercase(popup_data.Date) = WeekdayNames[k])
          => LET td == today(now)
                 date == parse_shortcut_date(popup_data.Date, now)
             IN /\ IsSome(date)
                /\ weekday(Unwrap(date)) = k - 1
                /\ Unwrap(date) - td \in 1..7
                /\ weekday(td) = k - 1 => Unwrap(date) = td + 7
                /\ \E t \in db' \ db :
                       /\ IsSome(t.limit)
                       /\ date_of(to_local(Unwrap(t.limit))) = Unwrap(date)]_vars

\* "Mon" was entered on a Monday and the task added is due a week later
C20_Witness ==
    /\ pc = "loop"
    /\ lastKey = "add_commit"
    /\ popup_data.Date = <<"M", "o", "n">>
    /\ weekday(today(now)) = 0
    /\ \E t \in db : /\ IsSome(t.limit)
                     /\ date_of(to_local(Unwrap(t.limit))) = today(now) + 7

\* C21: Enter on Description in Adding with a date text that is no weekday name:
\* parse_shortcut_date returns today for today/t, today + 1 for tomorrow/tm,
\* today + N for <N>d and today + 7N for <N>w, for every integer N and in any
\* case of the letters, and no value for any other text; the task added is due
\* on the day returned.
C21_DateShortcuts ==
    [][(/\ InLoop("Adding")
        /\ input_mode.step = "Description"
        /\ lastKey' = "add_commit"
        /\ ~storage_failed'
        /\ trim(popup_data.Date) # <<>>
        /\ to_lowercase(trim(popup_data.Date)) \notin Range(WeekdayNames))
       => LET s == to_lowercase(trim(popup_data.Date))
              td == today(now)
              n == parse_i64(pop(s))
              expected ==
                  CASE s \in {<<"t", "o", "d", "a", "y">>, <<"t">>} -> Some(td)
                    [] s \in {<<"t", "o", "m", "o", "r", "r", "o", "w">>, <<"t", "m">>}
                         -> Some(td + 1)
                    [] s[Len(s)] = "d" /\ IsSome(n) -> Some(td + Unwrap(n))
                    [] s[Len(s)] = "w" /\ IsSome(n) -> Some(td + 7 * Unwrap(n))
                    [] OTHER -> None
          IN /\ pc' = "loop"
             /\ parse_shortcut_date(trim(popup_data.Date), now) = expected
             /\ IsSome(expected)
                  => \E t \in db' \ db :
                        /\ IsSome(t.limit)
                        /\ date_of(to_local(Unwrap(t.limit))) = Unwrap(expected)]_vars

C23_DateTimeDefaults ==
    [][(/\ InLoop("Adding")
        /\ input_mode.step = "Description"
        /\ lastKey' = "add_commit"
        /\ pc' = "loop")
       => LET date_text == popup_data.Date
              time_text == popup_data.Time
              date == IF IsSome(parse_shortcut_date(trim(date_text), now))
                      THEN parse_shortcut_date(trim(date_text), now)
                      ELSE parse_ymd(trim(date_text))
              Unreadable == /\ parse_shortcut_time(trim(time_text), now) = None
                            /\ parse_hm(trim(time_text)) = None
          IN /\ trim(date_text) = <<>>
                  => /\ parse_full_date_time(date_text, time_text, now) = None
                     /\ \E t \in db' \ db : t.limit = None
             /\ (trim(date_text) # <<>> /\ IsSome(date) /\ Unreadable)
                  => /\ LET dt == parse_full_date_time(trim(date_text), trim(time_text), now)
                        IN /\ IsSome(dt)
                           /\ time_of(to_local(Unwrap(dt))) = 23 * Hour + 59 * 60
                           /\ date_of(to_local(Unwrap(dt))) = Unwrap(date)
                     /\ \E t \in db' \ db :
                           /\ IsSome(t.limit)
                           /\ time_of(to_local(Unwrap(t.limit))) = 23 * Hour + 59 * 60
                           /\ date_of(to_local(Unwrap(t.limit))) = Unwrap(date)]_vars

\* C23 amended: as above, but 23:59 of the day is converted from local time, which
\* gives its one instant, or no value when the local clocks show that time twice
\* or never; the task added has that limit.
C23_DefaultsInLocalTime ==
    [][(/\ InLoop("Adding")
        /\ input_mode.step = "Description"
        /\ lastKey' = "add_commit"
        /\ pc' = "loop")
       => LET date_text == popup_data.Date
              time_text == popup_data.Time
              date == IF IsSome(parse_shortcut_date(trim(date_text), now))
                      THEN parse_shortcut_date(trim(date_text), now)
                      ELSE parse_ymd(trim(date_text))
              Unreadable == /\ parse_shortcut_time(trim(time_text), now) = None
                            /\ parse_hm(trim(time_text)) = None
              local == (Unwrap(date) - 1) * Day + 23 * Hour + 59 * 60
              Folded == FoldEnd - Hour <= local /\ local < FoldEnd
          IN /\ trim(date_text) = <<>>
                  => /\ parse_full_date_time(date_text, time_text, now) = None
                     /\ \E t \in db' \ db : t.limit = None
             /\ (trim(date_text) # <<>> /\ IsSome(date) /\ Unreadable)
                  => LET dt == parse_full_date_time(trim(date_text), trim(time_text), now)
                     IN /\ \E t \in db' \ db : t.limit = dt
                        /\ Folded => dt = None
                        /\ ~Folded => /\ IsSome(dt)
                                      /\ to_local(Unwrap(dt)) = local]_vars

\* the date "tomorrow" was committed with the time text "25:00": the task added is
\* due tomorrow at 23:59
C23_Witness ==
    /\ pc = "loop"
    /\ lastKey = "add_commit"
    /\ popup_data.Date = <<"t", "o", "m", "o", "r", "r", "o", "w">>
    /\ popup_data.Time = <<"2", "5", ":", "0", "0">>
    /\ \E t \in db : /\ IsSome(t.limit)
                     /\ time_of(to_local(Unwrap(t.limit))) = 23 * Hour + 59 * 60
                     /\ date_of(to_local(Unwrap(t.limit))) = today(now) + 1

\* C24: Enter on Description in Adding with a date text that is not blank and
\* that neither parse_shortcut_date nor the calendar format reads does not end as
\* an empty date text does: no task without a limit is stored and the flow does
\* not close as if the entry had been accepted.
C24_BadDateSignalled ==
    [][(/\ InLoop("Adding")
        /\ input_mode.step = "Description"
        /\ lastKey' = "add_commit"
        /\ trim(popup_data.Date) # <<>>
        /\ parse_shortcut_date(trim(popup_data.Date), now) = None
        /\ parse_ymd(trim(popup_data.Date)) = None)
       => ~(/\ pc' = "loop"
            /\ input_mode' = Normal
            /\ \E t \in db' \ db : t.limit = None)]_vars

\* C25: the loop returns Quit only for 'q' or Esc pressed in Normal mode; in
\* Adding, Editing, Deleting, FilteringTag and FilteringPriority no key makes it
\* return Quit, and run_tui returns Quit only after such a key.
C25_QuitOnlyFromNormal ==
    [][/\ pc = "loop"
            => /\ res' = "quit" <=> lastKey' = "quit"
               /\ lastKey' = "quit" => input_mode = Normal
               /\ input_mode # Normal => res' # "quit" /\ ret' # "quit"
       /\ ret' = "quit" => lastKey' = "quit" /\ res' = "quit"]_vars

\* run_tui returned Quit after a title was entered in a popup that Esc closed and
\* a tag filter was set
C25_Witness ==
    /\ pc = "returned"
    /\ ret = "quit"
    /\ lastKey = "quit"
    /\ popup_data.Title = <<"t">>
    /\ tag_filter = Some(<<"a">>)

\* C26: a redraw leaves storage, the cache, the projection, the selection, the
\* mode, the buffer, the popup's fields, the filters, the sort order and the
\* show-done flag as they were.
C26_DrawChangesNothing ==
    [][(pc = "loop" /\ lastKey' = "draw")
            => UNCHANGED <<db, tasks, filtered_tasks, selected, input_mode, input_buffer,
                           popup_data, show_done, tag_filter, priority_filter,
                           sort_order>>]_vars

\* a redraw after the priority filter cut the projection of two cached tasks to
\* one, the cursor being on it
C26_Witness ==
    /\ pc = "loop"
    /\ lastKey = "draw"
    /\ Len(tasks) = 2
    /\ Len(filtered_tasks) = 1
    /\ priority_filter # None
    /\ selected = Some(0)

\* C27 as stated: when a key recomputes the projection (toggle, show-done, sort,
\* priority filter, confirmed delete): if the task under the cursor is in the new
\* projection the cursor is on that task; otherwise the cursor is
\* min(old index, new length - 1); with no selection before and a new projection
\* that is not empty the cursor is 0.
C27_CursorRelocated ==
    [][(/\ pc = "loop"
        /\ pc' = "loop"
        /\ lastKey' \in {"toggle", "h", "o", "priority_n", "priority_l", "priority_m",
                       "priority_h", "delete_confirm"})
       => LET new == filtered_tasks'
              Shown(id) == \E i \in 1..Len(new) : new[i].id = id
              under == filtered_tasks[Unwrap(selected) + 1].id
          IN /\ (IsSome(selected) /\ Shown(under))
                  => /\ IsSome(selected')
                     /\ new[Unwrap(selected') + 1].id = under
             /\ (IsSome(selected) /\ ~Shown(under))
                  => selected' = Some(Min(Unwrap(selected), Len(new) - 1))
             /\ (selected = None /\ new # <<>>)
                  => selected' = Some(0)]_vars

\* C27 amended: as above, but when the task under the cursor is not in the new
\* projection and the new projection is empty, the cursor is unset.
C27_CursorRelocatedOrUnset ==
    [][(/\ pc = "loop"
        /\ pc' = "loop"
        /\ lastKey' \in {"toggle", "h", "o", "priority_n", "priority_l", "priority_m",
                       "priority_h", "delete_confirm"})
       => LET new == filtered_tasks'
              Shown(id) == \E i \in 1..Len(new) : new[i].id = id
              under == filtered_tasks[Unwrap(selected) + 1].id
          IN /\ (IsSome(selected) /\ Shown(under))
                  => /\ IsSome(selected')
                     /\ new[Unwrap(selected') + 1].id = under
             /\ (IsSome(selected) /\ ~Shown(under))
                  => selected' = IF new = <<>> THEN None
                                 ELSE Some(Min(Unwrap(selected), Len(new) - 1))
             /\ (selected = None /\ new # <<>>)
                  => selected' = Some(0)]_vars

\* the cursor was on the second of two tasks, which left the projection: it is now
\* on the last task that remains
C27_Witness ==
    /\ pc = "loop"
    /\ lastKey \in {"toggle", "priority_n", "priority_l", "priority_m", "priority_h",
                   "delete_confirm"}
    /\ Len(hist.proj1) = 2
    /\ hist.from = Some(1)
    /\ Len(filtered_tasks) = 1
    /\ filtered_tasks[1].id # hist.proj1[2].id
    /\ selected = Some(0)

\* C28: a toggle in Normal mode with a task under the cursor, when storage
\* accepts it, flips is_done of that task in storage and in the cache and changes
\* no other field and no other task; after two toggles in succession of the same
\* task its row and its cached copy are as they were before the two.
C28_ToggleFlipsOne ==
    [][/\ (InLoop("Normal") /\ lastKey' = "toggle" /\ IsSome(selected) /\ ~storage_failed')
            => LET id == filtered_tasks[Unwrap(selected) + 1].id
                   Flipped(t) == IF t.id = id THEN [t EXCEPT !.is_done = ~t.is_done] ELSE t
               IN /\ db' = {Flipped(t) : t \in db}
                  /\ tasks' = [i \in 1..Len(tasks) |-> Flipped(tasks[i])]
                  /\ Row(db', id).is_done # Row(db, id).is_done
       /\ (/\ pc' = "loop"
           /\ lastKey' = "toggle"
           /\ hist'.k2 = "toggle"
           /\ IsSome(hist'.from))
            => LET last == hist'.proj1[Unwrap(hist'.from) + 1]
               IN \A i \in 1..Len(hist'.proj2) :
                     (hist'.proj2[i].id = last.id /\ hist'.proj2[i].is_done # last.is_done)
                        => /\ Row(db', last.id) = hist'.proj2[i]
                           /\ \E j \in 1..Len(tasks') : tasks'[j] = hist'.proj2[i]]_vars

\* a task with a due instant and a tag was toggled twice in succession and is
\* incomplete again, beside another task
C28_Witness ==
    /\ pc = "loop"
    /\ lastKey = "toggle"
    /\ hist.k2 = "toggle"
    /\ Len(tasks) = 2
    /\ hist.from = Some(1)
    /\ Len(hist.proj1) = 2
    /\ hist.proj1[2].is_done
    /\ ~Row(db, hist.proj1[2].id).is_done
    /\ \E i \in 1..Len(hist.proj2) :
          hist.proj2[i].id = hist.proj1[2].id /\ ~hist.proj2[i].is_done

\* C29: after a toggle the cache holds the tasks in the order get_tasks would load
\* them in at that moment, and the projection is the one that cache would give.
C29_ToggleKeepsLoadOrder ==
    (pc = "loop" /\ lastKey = "toggle")
        => /\ tasks = get_tasks(db)
           /\ filtered_tasks = Projection(get_tasks(db), show_done, tag_filter,
                                          priority_filter, sort_order)

\* C30: Enter on a step before Description stores the buffer in the field of that
\* step and leaves everything else of the popup data alone, and the buffer becomes
\* the text the popup data holds for the next step; in Editing that text is the one
\* start_edit_popup gives for the field of the task as it was when the flow began.
\* The edit key makes the buffer the title of the task under the cursor.
C30_BufferSeeded ==
    [][/\ (pc = "loop" /\ InPopup(input_mode) /\ lastKey' = "popup_next")
            => /\ popup_data' = [popup_data EXCEPT ![input_mode.step] = input_buffer]
               /\ input_mode'.step = PopupSteps[StepIndex(input_mode.step) + 1]
               /\ input_buffer' = popup_data[input_mode'.step]
               /\ input_mode.kind = "Editing"
                    => \E i \in 1..Len(hist.flow[2]) :
                          /\ hist.flow[2][i].id = input_mode.id
                          /\ input_buffer' = EditPopup(hist.flow[2][i])[input_mode'.step]
       /\ (pc = "loop" /\ lastKey' = "e" /\ selected # None)
            => /\ input_mode' = Editing(Current.id, "Title")
               /\ input_buffer' = Current.title
               /\ popup_data' = EditPopup(Current)]_vars

\* an Editing flow of a task with a level, a tag and a due instant has reached the
\* Time step after a title was typed, and the buffer holds the local time of day of
\* the task's due instant, 11:00
C30_Witness ==
    /\ pc = "loop"
    /\ lastKey = "popup_next"
    /\ input_mode.kind = "Editing"
    /\ input_mode.step = "Time"
    /\ popup_data.Title = <<"t">>
    /\ popup_data.Priority = <<"H", "i", "g", "h">>
    /\ popup_data.Tags = <<"b", "A">>
    /\ input_buffer = <<"1", "1", ":", "0", "0">>

\* C31: in Adding and in Editing a character key or Backspace changes the buffer and
\* nothing else: the loop goes on in the same mode at the same step, and the popup
\* data, the cursor, the filters, the sort order, the show-completed flag, the cache
\* and storage stay as they were, whatever the character is.
C31_TextKeysEditBuffer ==
    [][(pc = "loop" /\ InPopup(input_mode)
          /\ lastKey' \in {"popup_char", "popup_backspace"})
         => /\ UNCHANGED <<pc, res, ret, raw_mode, alt_screen, db, tasks, filtered_tasks,
                           selected, input_mode, popup_data, show_done, tag_filter,
                           priority_filter, sort_order>>
            /\ IF lastKey' = "popup_backspace"
               THEN input_buffer' = pop(input_buffer)
               ELSE /\ Len(input_buffer') > Len(input_buffer)
                    /\ SubSeq(input_buffer', 1, Len(input_buffer)) = input_buffer]_vars

\* in an Editing flow 'q' was typed at the Description step, and the loop goes on
C31_Witness ==
    /\ pc = "loop"
    /\ lastKey = "popup_char"
    /\ input_mode.kind = "Editing"
    /\ input_mode.step = "Description"
    /\ input_buffer = <<"q">>
    /\ res = "none"

\* C32 as stated: 'r' in Normal always leaves the mode Deleting(id), id being the id
\* of the task under the cursor.
C32_DeleteKeyAlwaysCaptures ==
    [][(pc = "loop" /\ input_mode = Normal /\ lastKey' = "r")
         => /\ input_mode'.kind = "Deleting"
            /\ IsSome(selected)
            /\ input_mode'.id = filtered_tasks[Unwrap(selected) + 1].id]_vars

\* C32: 'r' in Normal leaves the mode Deleting(id), id being the id of the task under
\* the cursor, when there is a task under the cursor; when there is none, which is
\* when the projection is empty, the mode stays Normal.  Nothing else changes.
C32_DeleteKeyCaptures ==
    [][(pc = "loop" /\ input_mode = Normal /\ lastKey' = "r")
         => /\ IF IsSome(selected)
               THEN input_mode' = Deleting(filtered_tasks[Unwrap(selected) + 1].id)
               ELSE filtered_tasks = <<>> /\ input_mode' = Normal
            /\ UNCHANGED <<pc, db, tasks, filtered_tasks, selected, input_buffer,
                           show_done, tag_filter, priority_filter, sort_order>>]_vars

\* 'r' was pressed with the cursor on the second of two tasks, whose id was captured
C32_Witness ==
    /\ pc = "loop"
    /\ lastKey = "r"
    /\ Len(filtered_tasks) = 2
    /\ selected = Some(1)
    /\ input_mode = Deleting(filtered_tasks[2].id)

\* C33: in FilteringPriority a key that is no level key, no clear key and not Esc
\* changes nothing; 'l', 'm' and 'h' set the priority filter to Low, Medium and High,
\* make the projection the one of the cache under the new filter and return to
\* Normal; Esc returns to Normal and leaves the priority filter and the projection
\* as they were.
C33_PriorityKeys ==
    [][(pc = "loop" /\ input_mode = FilteringPriority)
         => /\ lastKey' = "other"
                 => UNCHANGED <<pc, res, ret, raw_mode, alt_screen, db, tasks, filtered_tasks,
                                selected, input_mode, input_buffer, popup_data, show_done,
                                tag_filter, priority_filter, sort_order>>
            /\ lastKey' \in {"priority_l", "priority_m", "priority_h"}
                 => /\ priority_filter' = CASE lastKey' = "priority_l" -> Some("Low")
                                             [] lastKey' = "priority_m" -> Some("Medium")
                                             [] OTHER -> Some("High")
                    /\ filtered_tasks' = Projection(tasks, show_done, tag_filter,
                                                    priority_filter', sort_order)
                    /\ input_mode' = Normal
                    /\ UNCHANGED <<pc, db, tasks, show_done, tag_filter, sort_order>>
            /\ lastKey' = "priority_esc"
                 => /\ input_mode' = Normal
                    /\ UNCHANGED <<pc, db, tasks, filtered_tasks, selected, show_done,
                                   tag_filter, priority_filter, sort_order>>]_vars

\* 'm' was pressed in FilteringPriority: the filter is Medium and the one cached
\* task, whose priority is None, has left the projection
C33_Witness ==
    /\ pc = "loop"
    /\ lastKey = "priority_m"
    /\ input_mode = Normal
    /\ priority_filter = Some("Medium")
    /\ Len(tasks) = 1
    /\ filtered_tasks = <<>>

\* C34: 'f' in Normal makes the buffer the tag filter, or empty when there is none,
\* and changes neither the filter nor the projection; Enter pressed next, the buffer
\* untouched, leaves the tag filter, the projection and the cursor as they were;
\* Enter on an empty buffer clears the tag filter; Esc leaves the tag filter and
\* the projection as they were, whatever the buffer holds.
C34_TagFilterSeeded ==
    [][pc = "loop"
         => /\ (input_mode = Normal /\ lastKey' = "f")
                 => /\ input_mode' = FilteringTag
                    /\ input_buffer' = IF tag_filter = None THEN <<>> ELSE Unwrap(tag_filter)
                    /\ UNCHANGED <<tag_filter, filtered_tasks, selected>>
            /\ (lastKey = "f" /\ lastKey' = "filter_enter")
                 => UNCHANGED <<tag_filter, filtered_tasks, selected, tasks, db>>
            /\ (input_mode = FilteringTag /\ lastKey' = "filter_enter" /\ input_buffer = <<>>)
                 => tag_filter' = None
            /\ (input_mode = FilteringTag /\ lastKey' = "filter_esc")
                 => /\ input_mode' = Normal
                    /\ UNCHANGED <<tag_filter, filtered_tasks, selected, tasks, db>>]_vars

\* 'f' was pressed while the tag filter "A" hides one of two cached tasks: the
\* buffer holds "A"
C34_Witness ==
    /\ pc = "loop"
    /\ lastKey = "f"
    /\ input_mode = FilteringTag
    /\ tag_filter = Some(<<"A">>)
    /\ input_buffer = <<"A">>
    /\ Len(tasks) = 2
    /\ Len(filtered_tasks) = 1

\* C35: a commit of an Adding or an Editing flow that ends in an error leaves
\* storage either as it was before the call of add_task or update_task, or as the
\* call leaves it when every statement of it has run (the error is then the one of
\* the reload that follows), and never in between.
C35_CommitAtomic ==
    [][(pc = "loop" /\ lastKey' \in {"add_commit", "edit_commit"} /\ storage_failed')
         => LET p == popup_data'
            IN \/ db' = db
               \/ /\ input_mode.kind = "Adding"
                  /\ db' = add_task(db, p.Title, popup_limit(p, now), popup_description(p),
                                    parse_priority(p.Priority), parse_tags(p.Tags),
                                    parse_dependencies(p.Dependencies))
               \/ /\ input_mode.kind = "Editing"
                  /\ input_mode.id \in Ids(db)
                  /\ db' = update_task(db, edited_task(Row(db, input_mode.id), p, now))]_vars

\* C36: while the loop runs in Deleting(id) or Editing(id, step), id is the id of
\* the task under the cursor, which is a task of the cache and a row of storage;
\* the two modes are entered only from a projection that is not empty, with the id
\* of the task then under the cursor.
C36_TargetExists ==
    [][LET Targets == {"Deleting", "Editing"}
       IN /\ (pc' = "loop" /\ input_mode'.kind \in Targets)
               => /\ IsSome(selected')
                  /\ Unwrap(selected') < Len(filtered_tasks')
                  /\ filtered_tasks'[Unwrap(selected') + 1].id = input_mode'.id
                  /\ \E i \in 1..Len(tasks') : tasks'[i].id = input_mode'.id
                  /\ input_mode'.id \in Ids(db')
          /\ (input_mode.kind \notin Targets /\ input_mode'.kind \in Targets)
               => /\ filtered_tasks # <<>>
                  /\ IsSome(selected)
                  /\ input_mode'.id = filtered_tasks[Unwrap(selected) + 1].id]_vars

\* the second of two tasks is being edited, at the Tags step
C36_Witness ==
    /\ pc = "loop"
    /\ input_mode = Editing(2, "Tags")
    /\ selected = Some(1)
    /\ Len(filtered_tasks) = 2
    /\ filtered_tasks[2].id = 2
    /\ 2 \in Ids(db)

\* C37: an Editing flow in which no buffer was edited, committed without an error,
\* leaves the stored title, completion flag, due instant, description and
\* dependencies of the edited task as they were.
C37_UneditedKeeps ==
    [][(/\ pc = "loop"
        /\ pc' = "loop"
        /\ input_mode.kind = "Editing"
        /\ lastKey' = "edit_commit"
        /\ input_mode.id \in Ids(db)
        /\ popup_data' = EditPopup(Row(db, input_mode.id)))
       => /\ input_mode.id \in Ids(db')
          /\ LET old == Row(db, input_mode.id)
                 new == Row(db', input_mode.id)
             IN /\ new.title = old.title
                /\ new.is_done = old.is_done
                /\ new.limit = old.limit
                /\ new.description = old.description
                /\ new.dependencies = old.dependencies]_vars

\* C38: Enter on Description in Editing(id, step), whether or not it ends in an
\* error, leaves storage with the rows of the same ids, every row but the row id
\* as it was, and the row id with its completion flag; when there is no error the
\* row id holds the values of the popup.
C38_EditUpdatesOne ==
    [][(pc = "loop" /\ input_mode.kind = "Editing" /\ lastKey' = "edit_commit"
          /\ input_mode.id \in Ids(db))
         => /\ Ids(db') = Ids(db)
            /\ Cardinality(db') = Cardinality(db)
            /\ \A t \in db : t.id # input_mode.id => t \in db'
            /\ Row(db', input_mode.id).is_done = Row(db, input_mode.id).is_done
            /\ ~storage_failed'
                 => /\ Row(db', input_mode.id).title = popup_data'.Title
                    /\ Row(db', input_mode.id).priority = parse_priority(popup_data'.Priority)
                    /\ Row(db', input_mode.id).tags = parse_tags(popup_data'.Tags)]_vars

\* the second of two stored tasks, a completed one, was edited and has the title
\* typed; the first is as it was when the flow began
C38_Witness ==
    /\ pc = "loop"
    /\ lastKey = "edit_commit"
    /\ input_mode = Normal
    /\ Ids(db) = {1, 2}
    /\ Row(db, 2).title = <<"t">>
    /\ Row(db, 2).is_done
    /\ Row(db, 1).title = <<"a">>
    /\ Len(hist.flow) = 2
    /\ Row(db, 1) \in hist.flow[1]

====
